---- MODULE Spec2Model ----
(***************************************************************************)
(* Model of the impacted-areas identification engine:                      *)
(*   - find_nearest_dates of ImpactedAreasIdentificationProcessor          *)
(*     (processor.py) and of ImpactedAreasIdentificator                    *)
(*     (impacted_areas_identification.py), run on the same inputs;         *)
(*   - calculate_and_filter_vi_difference_by_threshold (both classes hold  *)
(*     the same code), called once and called twice;                       *)
(*   - calculate_impacted_area on the mask of that call;                   *)
(*   - calculate_vegetation_index and the four index formulas;             *)
(*   - trigger of ImpactedAreasIdentificationProcessor, stage by stage,    *)
(*     with upload_to_cloud_storage;                                       *)
(*   - identify_vi_impacted_area_based_on_stac_images on a datacube;       *)
(*   - the imagery search window of both classes;                          *)
(*   - apply_cloud_mask_to_raw_images_datacube on a raw and a mask cube;   *)
(*   - the temporary zarr directory of one or two runs of trigger.         *)
(* Dates are day numbers (datetime.date values; the difference of two      *)
(* dates is a timedelta whose .days is the difference of the day numbers). *)
(***************************************************************************)
EXTENDS Integers, Sequences, FiniteSets

\* ------------------------------------------------------------------ bounds
MaxDay == 5
MaxLen == 3
MaxDuration == 4
MaxVal == 1

Days == 1..MaxDay
Durations == 0..MaxDuration

\* Every list of at most MaxLen dates: the coverage dates are handed over as
\* the provider returns them, neither sorted nor de-duplicated.
DateLists == UNION {[1..n -> Days] : n \in 0..MaxLen}

\* Raster shapes (rows, columns) of the two vegetation-index images.
Shapes == {<<1, 1>>, <<1, 2>>, <<2, 1>>, <<2, 2>>}

\* Thresholds of the difference filter (finite reals): with cell values
\* 0..MaxVal, 0 keeps the negative differences and 1 keeps the zero ones too.
Thresholds == {0, 1}

VARIABLES
    date_list,      \* find_nearest_dates: argument date_list
    event_date,     \* find_nearest_dates: argument event_date (as a date)
    min_duration,   \* find_nearest_dates: argument min_duration
    proc,           \* frame of ImpactedAreasIdentificationProcessor.find_nearest_dates
    ident,          \* frame of ImpactedAreasIdentificator.find_nearest_dates
    vi_before,      \* argument vi_index_for_image_before_event_date (a raster)
    vi_after,       \* argument vi_index_for_image_after_event_date (a raster)
    diff,           \* outcome of calculate_and_filter_vi_difference_by_threshold
    area,           \* call of calculate_impacted_area: argument polygon, outcome
    vi,             \* call of calculate_vegetation_index: arguments, outcome
    stac,           \* identify_vi_impacted_area_based_on_stac_images: datacube, position
    run,            \* ImpactedAreasIdentificationProcessor.trigger: inputs, position, effects
    repeat,         \* two calls of the difference filter in a row: arguments, first outcome
    window,         \* the imagery search window: event date, clock, function, outcome
    cube,           \* apply_cloud_mask_to_raw_images_datacube: raw cube, mask cube, outcome
    zarr            \* lines 168-191 of trigger: clock, temporary directory, one or two runs

vars == <<date_list, event_date, min_duration, proc, ident, vi_before, vi_after, diff,
          area, vi, stac, run, repeat, window, cube, zarr>>
dateVars == <<date_list, event_date, min_duration, proc, ident>>
diffVars == <<vi_before, vi_after, diff>>
restVars == <<window, cube, zarr>>
otherVars == <<area, vi, stac, run, repeat, restVars>>

\* The parts of the state an operation does not use stay at these values.
DatesIdle ==
    /\ date_list = <<>>
    /\ event_date = 1
    /\ min_duration = 0
    /\ proc = [pc |-> "idle"]
    /\ ident = [pc |-> "idle"]
DiffIdle ==
    /\ vi_before = <<>>
    /\ vi_after = <<>>
    /\ diff = [pc |-> "idle"]
AreaIdle == area = [pc |-> "idle"]
ViIdle == vi = [pc |-> "idle"]
StacIdle == stac = [pc |-> "idle"]
RunIdle == run = [pc |-> "idle"]
RepeatIdle == repeat = [pc |-> "idle"]
WindowIdle == window = [pc |-> "idle"]
CubeIdle == cube = [pc |-> "idle"]
ZarrIdle == zarr = [pc |-> "idle"]
RestIdle == WindowIdle /\ CubeIdle /\ ZarrIdle

\* ------------------------------------------------- find_nearest_dates: helpers

\* The elements of a list as a set.
Range(s) == {s[i] : i \in 1..Len(s)}

\* min(...) and max(...) of a non-empty collection of dates.
SetMin(S) == CHOOSE x \in S : \A y \in S : x <= y
SetMax(S) == CHOOSE x \in S : \A y \in S : x >= y

\* Mutant of Superiors: the comparison with the event date is not strict.
Superiors_NotStrict(dl, ev) == {x \in Range(dl) : x >= ev}

\* filter(lambda x: x > event_date, date_list), as the set min() ranges over.
Superiors(dl, ev) == {x \in Range(dl) : x > ev}

\* filter(lambda x: x < event_date, date_list), as the set max() ranges over.
Inferiors(dl, ev) == {x \in Range(dl) : x < ev}

\* Mutant of NextInferior: the comparison with the event date is not strict.
NextInferior_NotStrict(dl, ev, from) ==
    IF \E j \in from..Len(dl) : dl[j] <= ev
    THEN SetMin({j \in from..Len(dl) : dl[j] <= ev})
    ELSE 0

\* The lazy filter object list_inferior: the position of the next element of
\* date_list, at or after position `from`, that is < event_date; 0 when the
\* iterator is exhausted.
NextInferior(dl, ev, from) ==
    IF \E j \in from..Len(dl) : dl[j] < ev
    THEN SetMin({j \in from..Len(dl) : dl[j] < ev})
    ELSE 0

\* Mutant of GapOk: the gap must exceed min_duration.
GapOk_Strict(sup, date_before, md) == sup - date_before > md

\* difference = nearest_superior - date_before; difference.days >= min_duration
GapOk(sup, date_before, md) == sup - date_before >= md

\* The frame of a call that has not started: no local is bound yet.
NewFrame ==
    [pc |-> "start", it |-> 1, nearest_superior |-> 0, nearest_inferior |-> 0,
     locals |-> {}]

\* ------------------------- ImpactedAreasIdentificationProcessor.find_nearest_dates

\* Mutant of P_Start: with no superior date the event date is taken instead
\* of raising.
P_Start_Defaulted(f, dl, ev) ==
    [f EXCEPT !.pc = "loop",
              !.nearest_superior =
                  IF Superiors(dl, ev) = {} THEN ev ELSE SetMin(Superiors(dl, ev)),
              !.locals = {"list_inferior", "nearest_superior"}]

\* Lines 266-267: build the lazy filter, take min() of the superior dates;
\* min() of an empty filter raises ValueError.
P_Start(f, dl, ev) ==
    IF Superiors(dl, ev) = {}
    THEN [f EXCEPT !.pc = "raised"]
    ELSE [f EXCEPT !.pc = "loop",
                   !.nearest_superior = SetMin(Superiors(dl, ev)),
                   !.locals = {"list_inferior", "nearest_superior"}]

\* Mutant of P_LoopStep: the loop has no break and keeps the last match.
P_LoopStep_NoBreak(f, dl, ev, md) ==
    LET j == NextInferior(dl, ev, f.it) IN
    IF j = 0
    THEN [f EXCEPT !.pc = "after_loop", !.it = Len(dl) + 1]
    ELSE IF GapOk(f.nearest_superior, dl[j], md)
         THEN [f EXCEPT !.it = j + 1,
                        !.nearest_inferior = dl[j],
                        !.locals = @ \cup {"date_before", "difference", "nearest_inferior"}]
         ELSE [f EXCEPT !.it = j + 1,
                        !.locals = @ \cup {"date_before", "difference"}]

\* Lines 269-273: one pass of the for loop; the first date_before whose gap to
\* nearest_superior is >= min_duration is kept and the loop is left (break).
P_LoopStep(f, dl, ev, md) ==
    LET j == NextInferior(dl, ev, f.it) IN
    IF j = 0
    THEN [f EXCEPT !.pc = "after_loop", !.it = Len(dl) + 1]
    ELSE IF GapOk(f.nearest_superior, dl[j], md)
         THEN [f EXCEPT !.pc = "after_loop", !.it = j + 1,
                        !.nearest_inferior = dl[j],
                        !.locals = @ \cup {"date_before", "difference", "nearest_inferior"}]
         ELSE [f EXCEPT !.it = j + 1,
                        !.locals = @ \cup {"date_before", "difference"}]

\* Mutant of P_Finish: the fallback takes min() of the inferior dates.
P_Finish_FallbackMin(f, dl, ev) ==
    IF "nearest_inferior" \in f.locals
    THEN [f EXCEPT !.pc = "returned"]
    ELSE IF Inferiors(dl, ev) = {}
         THEN [f EXCEPT !.pc = "raised"]
         ELSE [f EXCEPT !.pc = "returned",
                        !.nearest_inferior = SetMin(Inferiors(dl, ev)),
                        !.locals = @ \cup {"nearest_inferior"}]

\* Lines 274-280: when the loop bound no nearest_inferior, fall back to max()
\* of the inferior dates (ValueError when there is none); return the bracket.
P_Finish(f, dl, ev) ==
    IF "nearest_inferior" \in f.locals
    THEN [f EXCEPT !.pc = "returned"]
    ELSE IF Inferiors(dl, ev) = {}
         THEN [f EXCEPT !.pc = "raised"]
         ELSE [f EXCEPT !.pc = "returned",
                        !.nearest_inferior = SetMax(Inferiors(dl, ev)),
                        !.locals = @ \cup {"nearest_inferior"}]

\* ----------------------------------- ImpactedAreasIdentificator.find_nearest_dates

\* Lines 188-189.
I_Start(f, dl, ev) ==
    IF Superiors(dl, ev) = {}
    THEN [f EXCEPT !.pc = "raised"]
    ELSE [f EXCEPT !.pc = "loop",
                   !.nearest_superior = SetMin(Superiors(dl, ev)),
                   !.locals = {"list_inferior", "nearest_superior"}]

\* Lines 190-193: one pass of the for loop; there is no break, so every later
\* date_before with a sufficient gap overwrites nearest_inferior.
I_LoopStep(f, dl, ev, md) ==
    LET j == NextInferior(dl, ev, f.it) IN
    IF j = 0
    THEN [f EXCEPT !.pc = "after_loop", !.it = Len(dl) + 1]
    ELSE IF GapOk(f.nearest_superior, dl[j], md)
         THEN [f EXCEPT !.it = j + 1,
                        !.nearest_inferior = dl[j],
                        !.locals = @ \cup {"date_before", "difference", "nearest_inferior"}]
         ELSE [f EXCEPT !.it = j + 1,
                        !.locals = @ \cup {"date_before", "difference"}]

\* Lines 194-196.
I_Finish(f, dl, ev) ==
    IF "nearest_inferior" \in f.locals
    THEN [f EXCEPT !.pc = "returned"]
    ELSE IF Inferiors(dl, ev) = {}
         THEN [f EXCEPT !.pc = "raised"]
         ELSE [f EXCEPT !.pc = "returned",
                        !.nearest_inferior = SetMax(Inferiors(dl, ev)),
                        !.locals = @ \cup {"nearest_inferior"}]

\* ------------------------------------------------------------------ actions

InitDates ==
    /\ date_list \in DateLists
    /\ event_date \in Days
    /\ min_duration \in Durations
    /\ proc = NewFrame
    /\ ident = NewFrame
    /\ vi_before = <<>>
    /\ vi_after = <<>>
    /\ diff = [pc |-> "idle"]
    /\ AreaIdle /\ ViIdle /\ StacIdle /\ RunIdle /\ RepeatIdle /\ RestIdle

ProcStart ==
    /\ proc.pc = "start"
    /\ proc' = P_Start(proc, date_list, event_date)
    /\ UNCHANGED <<date_list, event_date, min_duration, ident, diffVars, otherVars>>

ProcLoop ==
    /\ proc.pc = "loop"
    /\ proc' = P_LoopStep(proc, date_list, event_date, min_duration)
    /\ UNCHANGED <<date_list, event_date, min_duration, ident, diffVars, otherVars>>

ProcFinish ==
    /\ proc.pc = "after_loop"
    /\ proc' = P_Finish(proc, date_list, event_date)
    /\ UNCHANGED <<date_list, event_date, min_duration, ident, diffVars, otherVars>>

IdentStart ==
    /\ ident.pc = "start"
    /\ ident' = I_Start(ident, date_list, event_date)
    /\ UNCHANGED <<date_list, event_date, min_duration, proc, diffVars, otherVars>>

IdentLoop ==
    /\ ident.pc = "loop"
    /\ ident' = I_LoopStep(ident, date_list, event_date, min_duration)
    /\ UNCHANGED <<date_list, event_date, min_duration, proc, diffVars, otherVars>>

IdentFinish ==
    /\ ident.pc = "after_loop"
    /\ ident' = I_Finish(ident, date_list, event_date)
    /\ UNCHANGED <<date_list, event_date, min_duration, proc, diffVars, otherVars>>

NextDates ==
    \/ ProcStart
    \/ ProcLoop
    \/ ProcFinish
    \/ IdentStart
    \/ IdentLoop
    \/ IdentFinish

SpecDates == InitDates /\ [][NextDates]_vars

\* ------------------------------------------------ find_nearest_dates: claims

Frames == {proc, ident}
Returned(f) == f.pc = "returned"
Raised(f) == f.pc = "raised"

\* date_list is in ascending order (repeated dates allowed).
IsAscending(dl) == \A i, j \in 1..Len(dl) : i < j => dl[i] <= dl[j]

\* Positions of the dates strictly before the event date whose gap in days to
\* the date `sup` is at least md.
Matches(dl, ev, md, sup) == {j \in 1..Len(dl) : dl[j] < ev /\ sup - dl[j] >= md}

\* Position of the first such date in list order.
FirstMatch(dl, ev, md, sup) ==
    CHOOSE j \in Matches(dl, ev, md, sup) : \A k \in Matches(dl, ev, md, sup) : j <= k

\* The returned before_event_date is the first match in list order.
FirstMatchReturned(f) ==
    (/\ Returned(f)
     /\ IsAscending(date_list)
     /\ Matches(date_list, event_date, min_duration, f.nearest_superior) # {})
    => f.nearest_inferior =
           date_list[FirstMatch(date_list, event_date, min_duration, f.nearest_superior)]

\* The scan went no further than the first match: the iterator list_inferior
\* stands right behind it.
ScanStoppedAtFirstMatch(f) ==
    (/\ f.pc \in {"after_loop", "returned"}
     /\ IsAscending(date_list)
     /\ Matches(date_list, event_date, min_duration, f.nearest_superior) # {})
    => f.it = FirstMatch(date_list, event_date, min_duration, f.nearest_superior) + 1

\* C1 (as claimed, its returned value): for an ascending date list,
\* find_nearest_dates of both classes returns as before_event_date the first
\* date in list order that is strictly before the event date with a gap to
\* after_event_date >= min_duration.
C1_FirstMatchBothClasses == \A f \in Frames : FirstMatchReturned(f)

\* C1 (the part the code keeps): the whole statement, the returned value and
\* the scan stopping at the first match, holds for
\* ImpactedAreasIdentificationProcessor.find_nearest_dates.
C1_FirstMatchProcessor == FirstMatchReturned(proc) /\ ScanStoppedAtFirstMatch(proc)

\* C2: whenever the list holds a date strictly greater than the event date,
\* the after_event_date the call chooses (and returns) is the minimum date of
\* the list strictly greater than the event date; neither returned date
\* equals the event date.
C2_AfterIsMinSuperior ==
    \A f \in Frames :
        /\ (/\ f.pc \in {"loop", "after_loop", "returned"}
            /\ \E x \in Range(date_list) : x > event_date)
           => /\ f.nearest_superior \in Range(date_list)
              /\ f.nearest_superior > event_date
              /\ \A x \in Range(date_list) : x > event_date => f.nearest_superior <= x
        /\ Returned(f) =>
              /\ \E x \in Range(date_list) : x > event_date
              /\ f.nearest_superior # event_date
              /\ f.nearest_inferior # event_date

\* C2 witness: both classes returned a bracket from a list that holds two
\* different dates after the event date, the larger one first.
C2_Witness ==
    /\ Returned(proc) /\ Returned(ident)
    /\ \E i, j \in 1..Len(date_list) :
          i < j /\ date_list[i] > date_list[j] /\ date_list[j] > event_date

\* C3 (as claimed): every returned bracket has
\* after_event_date - before_event_date >= min_duration.
C3_GapAlwaysAtLeastMinDuration ==
    \A f \in Frames :
        Returned(f) => f.nearest_superior - f.nearest_inferior >= min_duration

\* C3 (amended): the returned bracket has a gap >= min_duration whenever some
\* date strictly before the event date has such a gap to after_event_date;
\* when none has, the bracket is still returned, with the latest earlier date
\* and a gap < min_duration.
C3_GapAtLeastMinDurationWhenPossible ==
    \A f \in Frames :
        Returned(f) =>
            IF \E x \in Range(date_list) :
                   x < event_date /\ f.nearest_superior - x >= min_duration
            THEN f.nearest_superior - f.nearest_inferior >= min_duration
            ELSE /\ f.nearest_superior - f.nearest_inferior < min_duration
                 /\ \A x \in Range(date_list) : x < event_date => x <= f.nearest_inferior

\* C3 witness: a bracket returned with a gap below min_duration although the
\* list holds two different earlier dates.
C3_Witness ==
    /\ Returned(proc) /\ Returned(ident)
    /\ proc.nearest_superior - proc.nearest_inferior < min_duration
    /\ \E x \in Range(date_list) : x < proc.nearest_inferior

\* C4: every returned bracket has before_event_date < event_date <
\* after_event_date, both dates being elements of the date list.
C4_BracketAroundEvent ==
    \A f \in Frames :
        Returned(f) =>
            /\ f.nearest_inferior < event_date
            /\ event_date < f.nearest_superior
            /\ f.nearest_inferior \in Range(date_list)
            /\ f.nearest_superior \in Range(date_list)

\* C4 witness: both classes returned a bracket from a list of three different
\* dates one of which is the event date.
C4_Witness ==
    /\ Returned(proc) /\ Returned(ident)
    /\ Cardinality(Range(date_list)) >= 3
    /\ event_date \in Range(date_list)

\* C5: when some date lies strictly before the event date but none of them
\* has a gap to after_event_date >= min_duration, the returned
\* before_event_date is the latest date strictly before the event date.
C5_FallbackIsLatestInferior ==
    \A f \in Frames :
        (/\ Returned(f)
         /\ \E x \in Range(date_list) : x < event_date
         /\ \A x \in Range(date_list) :
                x < event_date => f.nearest_superior - x < min_duration)
        => /\ f.nearest_inferior \in Range(date_list)
           /\ f.nearest_inferior < event_date
           /\ \A x \in Range(date_list) : x < event_date => x <= f.nearest_inferior

\* C5 witness: the fallback was taken with two different earlier dates in the
\* list, the latest one not being the last one scanned.
C5_Witness ==
    /\ Returned(proc) /\ Returned(ident)
    /\ \A x \in Range(date_list) :
           x < event_date => proc.nearest_superior - x < min_duration
    /\ \E i, j \in 1..Len(date_list) :
          i < j /\ date_list[j] < date_list[i] /\ date_list[i] < event_date

\* C6: a bracket is returned only when the list has a date strictly before
\* and a date strictly after the event date, an error is raised only when one
\* of the two is missing, and a call that has ended did one or the other.
C6_BracketIffBothSidesNonEmpty ==
    \A f \in Frames :
        LET before_side == \E x \in Range(date_list) : x < event_date
            after_side == \E x \in Range(date_list) : x > event_date
        IN /\ Returned(f) => (before_side /\ after_side)
           /\ Raised(f) => ~(before_side /\ after_side)
           /\ f.pc \in {"start", "loop", "after_loop", "returned", "raised"}
           /\ (f.pc = "after_loop" /\ ~before_side) => "nearest_inferior" \notin f.locals

\* C6 witness: both calls raised although the list holds a date after the
\* event date (the earlier side is the empty one).
C6_Witness ==
    /\ Raised(proc) /\ Raised(ident)
    /\ \E x \in Range(date_list) : x > event_date
    /\ Len(date_list) >= 2

\* C7 (as claimed, from the docstring): the returned before_event_date is the
\* nearest inferior date, i.e. the latest date of the list strictly before
\* the event date.
C7_BeforeIsNearestInferior ==
    \A f \in Frames :
        Returned(f) =>
            \A x \in Range(date_list) : x < event_date => x <= f.nearest_inferior

\* ------------------------------- floating-point cells of a vegetation-index raster

\* A cell is an IEEE double: NaN, an infinity (v is its sign) or a finite
\* number (v is its value; small integers, whose differences are exact).
NaN == [kind |-> "nan", v |-> 0]
PInf == [kind |-> "inf", v |-> 1]
NInf == [kind |-> "inf", v |-> -1]
Fin(n) == [kind |-> "fin", v |-> n]

\* The cell values of the input rasters. An index raster holds NaN where a
\* pixel is missing and an infinity where its formula divided by zero.
CellValues == {NaN, PInf} \cup {Fin(n) : n \in 0..MaxVal}

\* Rasters of r rows and c columns.
Rasters(r, c) == [1..r -> [1..c -> CellValues]]

\* The cell values of the image after the event: with them every difference
\* from -MaxVal to 1, both infinities and NaN occur.
AfterCellValues == {NaN, PInf, Fin(0), Fin(1)}

AfterRasters(r, c) == [1..r -> [1..c -> AfterCellValues]]

NRows(x) == Len(x)
NCols(x) == Len(x[1])
Cells(x) == (1..NRows(x)) \X (1..NCols(x))

\* np.isnan(x), elementwise on one cell.
IsNaN(a) == a.kind = "nan"

\* a - b in IEEE arithmetic: NaN when an operand is NaN or when both are the
\* same infinity.
FSub(a, b) ==
    IF IsNaN(a) \/ IsNaN(b) THEN NaN
    ELSE IF a.kind = "inf"
         THEN IF b.kind = "inf" /\ b.v = a.v THEN NaN ELSE a
         ELSE IF b.kind = "inf"
              THEN [kind |-> "inf", v |-> 0 - b.v]
              ELSE Fin(a.v - b.v)

\* a < t for a finite threshold t: False for NaN.
FLess(a, t) ==
    CASE a.kind = "nan" -> FALSE
      [] a.kind = "inf" -> a.v < 0
      [] OTHER -> a.v < t

\* x.notnull() of one cell: an infinity is not null.
NotNull(a) == ~IsNaN(a)

\* ------------------------- calculate_and_filter_vi_difference_by_threshold
\* (processor.py 338-350; impacted_areas_identification.py 239-245 is the
\* same text)

\* .squeeze(): the number of dimensions left once those of length 1 are dropped.
SqueezedNDim(x) ==
    (IF NRows(x) > 1 THEN 1 ELSE 0) + (IF NCols(x) > 1 THEN 1 ELSE 0)

\* Mutant of MaskedDifference: the operands of the subtraction swapped.
MaskedDifference_Swapped(ds_before, ds_after) ==
    [i \in 1..NRows(ds_after) |->
        [j \in 1..NCols(ds_after) |->
            IF ~(IsNaN(ds_before[i][j]) \/ IsNaN(ds_after[i][j]))
            THEN FSub(ds_before[i][j], ds_after[i][j])
            ELSE NaN]]

\* (ds_after - ds_before).where(~np.logical_or(np.isnan(ds_before), np.isnan(ds_after)))
MaskedDifference(ds_before, ds_after) ==
    [i \in 1..NRows(ds_after) |->
        [j \in 1..NCols(ds_after) |->
            IF ~(IsNaN(ds_before[i][j]) \/ IsNaN(ds_after[i][j]))
            THEN FSub(ds_after[i][j], ds_before[i][j])
            ELSE NaN]]

\* sum(sum(x.notnull())): the rows are added up cell by cell, then the cells
\* of that sum.
RECURSIVE SumTo(_, _)
SumTo(f, n) == IF n = 0 THEN 0 ELSE f[n] + SumTo(f, n - 1)

NotNullCount(x) ==
    LET row_sum == [j \in 1..NCols(x) |->
                       SumTo([i \in 1..NRows(x) |-> IF NotNull(x[i][j]) THEN 1 ELSE 0],
                             NRows(x))]
    IN SumTo(row_sum, NCols(x))

\* Mutant of FilterBelow: a failing cell is set to zero instead of NaN.
FilterBelow_ZeroFill(x, threshold) ==
    [i \in 1..NRows(x) |->
        [j \in 1..NCols(x) |->
            IF FLess(x[i][j], threshold) THEN x[i][j] ELSE Fin(0)]]

\* vi_difference_result.where(vi_difference_result < threshold)
FilterBelow(x, threshold) ==
    [i \in 1..NRows(x) |->
        [j \in 1..NCols(x) |->
            IF FLess(x[i][j], threshold) THEN x[i][j] ELSE NaN]]

\* Mutant of the whole call: the valid pixels are counted after the filter.
calculate_and_filter_CountAfterFilter(before, after, threshold) ==
    LET vi_difference_result == MaskedDifference(before, after) IN
    IF SqueezedNDim(after) # 2
    THEN [pc |-> "raised"]
    ELSE [pc |-> "returned",
          threshold |-> threshold,
          vi_difference_result |-> vi_difference_result,
          geometry_size_px |-> NotNullCount(FilterBelow(vi_difference_result, threshold)),
          mask |-> FilterBelow(vi_difference_result, threshold)]

\* The whole call. sum(sum(...)) iterates a two-dimensional array; on what
\* squeeze() leaves of a raster with a single row or column the outer sum()
\* iterates a 0-d array, which raises TypeError.
calculate_and_filter_vi_difference_by_threshold(before, after, threshold) ==
    LET vi_difference_result == MaskedDifference(before, after) IN
    IF SqueezedNDim(after) # 2
    THEN [pc |-> "raised"]
    ELSE [pc |-> "returned",
          threshold |-> threshold,
          vi_difference_result |-> vi_difference_result,
          geometry_size_px |-> NotNullCount(vi_difference_result),
          mask |-> FilterBelow(vi_difference_result, threshold)]

InitDiff ==
    /\ \E shape \in Shapes :
          /\ vi_before \in Rasters(shape[1], shape[2])
          /\ vi_after \in AfterRasters(shape[1], shape[2])
    /\ diff = [pc |-> "ready"]
    /\ date_list = <<>>
    /\ event_date = 1
    /\ min_duration = 0
    /\ proc = [NewFrame EXCEPT !.pc = "idle"]
    /\ ident = [NewFrame EXCEPT !.pc = "idle"]
    /\ AreaIdle /\ ViIdle /\ StacIdle /\ RunIdle /\ RepeatIdle /\ RestIdle

\* Mutant of RastersAfterCall: the difference is computed in place, in the
\* raster of the image after the event.
RastersAfterCall_InPlace(before, after) ==
    [before |-> before, after |-> MaskedDifference(before, after)]

\* The two argument rasters once the call is over. Every statement of lines
\* 338-350 binds the value of an expression to a local name, and squeeze,
\* drop, -, where and assign_coords each build a new array: the arrays of
\* the caller are not written to.
RastersAfterCall(before, after) == [before |-> before, after |-> after]

\* One call on the two rasters, with any threshold.
DiffCall ==
    /\ diff.pc = "ready"
    /\ \E threshold \in Thresholds :
          diff' = calculate_and_filter_vi_difference_by_threshold(
                      vi_before, vi_after, threshold)
    /\ vi_before' = RastersAfterCall(vi_before, vi_after).before
    /\ vi_after' = RastersAfterCall(vi_before, vi_after).after
    /\ UNCHANGED <<dateVars, otherVars>>

NextDiff == DiffCall

SpecDiff == InitDiff /\ [][NextDiff]_vars

\* --------------- calculate_and_filter_vi_difference_by_threshold: claims

\* a >= t for a finite threshold t: False for NaN.
FGeq(a, t) ==
    CASE a.kind = "nan" -> FALSE
      [] a.kind = "inf" -> a.v > 0
      [] OTHER -> a.v >= t

\* The cells of the two input rasters that are both non-NaN.
JointlyValid == {c \in Cells(vi_after) :
                    ~IsNaN(vi_before[c[1]][c[2]]) /\ ~IsNaN(vi_after[c[1]][c[2]])}

\* after - before of one cell, in floating point.
CellDifference(c) == FSub(vi_after[c[1]][c[2]], vi_before[c[1]][c[2]])

\* What C8 says of the retained cells and of a zero difference.
RetainedCellsBelowThreshold ==
    \A c \in Cells(vi_after) :
        LET m == diff.mask[c[1]][c[2]] IN
        /\ ~IsNaN(m) => (m = CellDifference(c) /\ FLess(m, diff.threshold)
                         /\ ~FGeq(m, diff.threshold))
        /\ (c \in JointlyValid /\ FGeq(CellDifference(c), diff.threshold)) => IsNaN(m)
        /\ (c \in JointlyValid /\ CellDifference(c) = Fin(0) /\ diff.threshold > 0)
               => m = Fin(0)

\* C8 (as claimed): every retained cell of the mask has value after - before
\* strictly < t; every NaN cell of the mask had a NaN input or has
\* after - before >= t; a failing cell is NaN, never zero; a zero difference
\* is retained when t > 0.
C8_MaskCellsAsClaimed ==
    diff.pc = "returned" =>
        /\ RetainedCellsBelowThreshold
        /\ \A c \in Cells(vi_after) :
              IsNaN(diff.mask[c[1]][c[2]]) =>
                  \/ c \notin JointlyValid
                  \/ FGeq(CellDifference(c), diff.threshold)

\* C8 (amended): as claimed, except that a NaN cell of the mask may also be a
\* cell whose two inputs are the same infinity, where after - before is NaN.
C8_MaskCellsAmended ==
    diff.pc = "returned" =>
        /\ RetainedCellsBelowThreshold
        /\ \A c \in Cells(vi_after) :
              IsNaN(diff.mask[c[1]][c[2]]) =>
                  \/ c \notin JointlyValid
                  \/ FGeq(CellDifference(c), diff.threshold)
                  \/ (/\ vi_before[c[1]][c[2]].kind = "inf"
                      /\ vi_after[c[1]][c[2]] = vi_before[c[1]][c[2]])

\* C8 witness: a returned mask with t > 0 that retains a zero difference and
\* a negative one, drops a difference >= t, and has a cell with a NaN input.
C8_Witness ==
    /\ diff.pc = "returned"
    /\ diff.threshold > 0
    /\ \E c \in JointlyValid : diff.mask[c[1]][c[2]] = Fin(0)
    /\ \E c \in JointlyValid : diff.mask[c[1]][c[2]] = Fin(-1)
    /\ \E c \in JointlyValid :
          CellDifference(c) = Fin(1) /\ IsNaN(diff.mask[c[1]][c[2]])
    /\ \E c \in Cells(vi_after) : c \notin JointlyValid

\* C9 (as claimed): geometry_size_px is the number of cells where both input
\* rasters are non-NaN, and any other threshold on the same pair gives the
\* same geometry_size_px.
C9_ValidCountAsClaimed ==
    diff.pc = "returned" =>
        /\ diff.geometry_size_px = Cardinality(JointlyValid)
        /\ \A t \in Thresholds :
              calculate_and_filter_vi_difference_by_threshold(
                  vi_before, vi_after, t).geometry_size_px = diff.geometry_size_px

\* C9 (amended): geometry_size_px is the number of cells where both input
\* rasters are non-NaN and after - before is not NaN (the two inputs are not
\* the same infinity), and any other threshold on the same pair gives the
\* same geometry_size_px.
C9_ValidCountAmended ==
    diff.pc = "returned" =>
        /\ diff.geometry_size_px =
              Cardinality({c \in JointlyValid : ~IsNaN(CellDifference(c))})
        /\ \A t \in Thresholds :
              calculate_and_filter_vi_difference_by_threshold(
                  vi_before, vi_after, t).geometry_size_px = diff.geometry_size_px

\* C9 witness: a returned mask whose filter dropped a valid cell and kept
\* another, with a cell that has a NaN input and a cell whose two inputs are
\* the same infinity.
C9_Witness ==
    /\ diff.pc = "returned"
    /\ \E c \in JointlyValid :
          ~IsNaN(CellDifference(c)) /\ IsNaN(diff.mask[c[1]][c[2]])
    /\ \E c \in Cells(vi_after) : ~IsNaN(diff.mask[c[1]][c[2]])
    /\ \E c \in Cells(vi_after) : c \notin JointlyValid
    /\ \E c \in JointlyValid : IsNaN(CellDifference(c))
    /\ diff.geometry_size_px >= 2

\* C10: before thresholding, the difference is after - before in every cell
\* where both inputs are non-NaN and NaN in every cell where an input is NaN
\* (also where the other operand is zero).
C10_DifferenceBeforeThreshold ==
    diff.pc = "returned" =>
        \A c \in Cells(vi_after) :
            LET d == diff.vi_difference_result[c[1]][c[2]] IN
            /\ c \in JointlyValid => d = CellDifference(c)
            /\ c \notin JointlyValid => IsNaN(d)

\* C10 witness: a returned call with a cell whose one input is NaN and whose
\* other input is zero, and cells with the differences 1 and -1.
C10_Witness ==
    /\ diff.pc = "returned"
    /\ \E c \in Cells(vi_after) :
          IsNaN(vi_before[c[1]][c[2]]) /\ vi_after[c[1]][c[2]] = Fin(0)
    /\ \E c \in Cells(vi_after) :
          IsNaN(vi_after[c[1]][c[2]]) /\ vi_before[c[1]][c[2]] = Fin(0)
    /\ \E c \in Cells(vi_after) : diff.vi_difference_result[c[1]][c[2]] = Fin(1)
    /\ \E c \in Cells(vi_after) : diff.vi_difference_result[c[1]][c[2]] = Fin(-1)

\* ---------------------------------------------------- calculate_impacted_area
\* (processor.py 421-454; impacted_areas_identification.py 281-312 is the
\* same text)

\* The largest geodesic area of a polygon (in whole square metres).
MaxArea == 2

\* A polygon argument: a string that shapely reads as WKT or not, and the
\* geodesic area of the geometry it reads.
Polygons ==
    {[valid |-> FALSE, area |-> 0]}
        \cup {[valid |-> TRUE, area |-> a] : a \in 0..MaxArea}

\* The cell values of the rasters whose impacted area is computed: with the
\* thresholds 0 and 1 their differences are NaN, 0 (kept by 1 only),
\* -inf (kept) and +inf (dropped).
AreaCellValues == {NaN, PInf, Fin(0)}

AreaRasters(r, c) == [1..r -> [1..c -> AreaCellValues]]

\* A finite float result, kept as the exact quotient n / d with d > 0.
Rat(n, d) == [kind |-> "rat", num |-> n, den |-> d]

\* n / d of two integer counts (numpy true division): a zero divisor gives
\* NaN for 0 / 0 and an infinity otherwise, with a warning and no exception.
TrueDivide(n, d) ==
    IF d = 0
    THEN IF n = 0 THEN NaN ELSE IF n > 0 THEN PInf ELSE NInf
    ELSE Rat(n, d)

\* x * k for a float x and a finite k: an infinity times zero is NaN.
FTimes(x, k) ==
    CASE x.kind = "nan" -> NaN
      [] x.kind = "inf" -> IF k = 0 THEN NaN
                           ELSE IF k > 0 THEN x
                           ELSE [kind |-> "inf", v |-> 0 - x.v]
      [] OTHER -> Rat(x.num * k, x.den)

\* x / k for a float x and a finite k > 0.
FOver(x, k) ==
    CASE x.kind = "nan" -> NaN
      [] x.kind = "inf" -> x
      [] OTHER -> Rat(x.num, x.den * k)

\* wkt.loads(polygon) raises on a string that is not WKT; the area is the
\* absolute value of the geodesic area.
calculate_geometry_area(polygon) ==
    IF polygon.valid
    THEN [pc |-> "returned", value |-> polygon.area]
    ELSE [pc |-> "raised"]

\* Mutant of calculate_impacted_area: every cell of the mask is counted, not
\* only the cells that are not null.
calculate_impacted_area_CountAllCells(polygon, impacted_area) ==
    LET geometry_area == calculate_geometry_area(polygon)
        impacted_area_percentage ==
            FTimes(TrueDivide(Cardinality(Cells(impacted_area.mask)),
                              impacted_area.geometry_size_px), 100)
    IN IF geometry_area.pc = "raised"
       THEN [pc |-> "raised"]
       ELSE [pc |-> "returned",
             impacted_area |->
                 FOver(FTimes(impacted_area_percentage, geometry_area.value), 100),
             impacted_area_percentage |-> impacted_area_percentage]

\* Mutant of calculate_impacted_area: the quotient is not scaled to a
\* percentage.
calculate_impacted_area_NoPercent(polygon, impacted_area) ==
    LET geometry_area == calculate_geometry_area(polygon)
        impacted_area_percentage ==
            TrueDivide(NotNullCount(impacted_area.mask),
                       impacted_area.geometry_size_px)
    IN IF geometry_area.pc = "raised"
       THEN [pc |-> "raised"]
       ELSE [pc |-> "returned",
             impacted_area |->
                 FOver(FTimes(impacted_area_percentage, geometry_area.value), 100),
             impacted_area_percentage |-> impacted_area_percentage]

\* The whole call on the DataArray returned by
\* calculate_and_filter_vi_difference_by_threshold (its values are the mask,
\* its coordinate geometry_size_px the count taken before the filter). The
\* polygon is read first; the division is never guarded.
calculate_impacted_area(polygon, impacted_area) ==
    LET geometry_area == calculate_geometry_area(polygon)
        impacted_area_percentage ==
            FTimes(TrueDivide(NotNullCount(impacted_area.mask),
                              impacted_area.geometry_size_px), 100)
    IN IF geometry_area.pc = "raised"
       THEN [pc |-> "raised"]
       ELSE [pc |-> "returned",
             impacted_area |->
                 FOver(FTimes(impacted_area_percentage, geometry_area.value), 100),
             impacted_area_percentage |-> impacted_area_percentage]

InitArea ==
    /\ \E shape \in Shapes :
          /\ vi_before \in AreaRasters(shape[1], shape[2])
          /\ vi_after \in AreaRasters(shape[1], shape[2])
    /\ diff = [pc |-> "ready"]
    /\ area = [pc |-> "ready"]
    /\ DatesIdle /\ ViIdle /\ StacIdle /\ RunIdle /\ RepeatIdle /\ RestIdle

\* One call on the mask the difference call returned, with any polygon.
AreaCall ==
    /\ area.pc = "ready"
    /\ diff.pc = "returned"
    /\ \E polygon \in Polygons :
          area' = [pc |-> "done",
                   polygon |-> polygon,
                   result |-> calculate_impacted_area(polygon, diff)]
    /\ UNCHANGED <<dateVars, diffVars, vi, stac, run, repeat, restVars>>

NextArea == DiffCall \/ AreaCall

SpecArea == InitArea /\ [][NextArea]_vars

\* ------------------------------------------- calculate_impacted_area: claims

\* The cells of the mask that are not NaN.
RetainedCells == {c \in Cells(diff.mask) : ~IsNaN(diff.mask[c[1]][c[2]])}

\* The cells whose difference, before the filter, is not NaN.
ValidCells ==
    {c \in Cells(diff.mask) : ~IsNaN(diff.vi_difference_result[c[1]][c[2]])}

AreaReturned == area.pc = "done" /\ area.result.pc = "returned"

\* C11: called with a mask whose valid pixel count (geometry_size_px) is 0,
\* calculate_impacted_area raises; it returns no area and no percentage.
C11_ZeroValidPixelsRaises ==
    (area.pc = "done" /\ diff.geometry_size_px = 0) => area.result.pc = "raised"

C13_PercentageAndAreaFormula ==
    AreaReturned =>
        LET p == area.result.impacted_area_percentage
            a == area.result.impacted_area
            kept == Cardinality(RetainedCells)
            valid == Cardinality(ValidCells)
        IN IF valid = 0
           THEN IsNaN(p) /\ IsNaN(a)
           ELSE /\ p.kind = "rat" /\ a.kind = "rat"
                /\ p.num * valid = kept * 100 * p.den
                /\ a.num * p.den * 100 = area.polygon.area * p.num * a.den

\* C13 witness: a returned call where one of three valid cells is kept, for
\* a polygon of area 2.
C13_Witness ==
    /\ AreaReturned
    /\ Cardinality(ValidCells) = 3
    /\ Cardinality(RetainedCells) = 1
    /\ area.polygon.area = 2

\* -------------------------------------------------- calculate_vegetation_index
\* (impacted_areas_identification.py 490-513, vegetation_index_calculator.py)

\* The largest band value of a pixel.
MaxBand == 1

\* The members of the enum VegetationIndex (vegetation_index.py).
VegetationIndex == {"NDVI", "EVI", "GNDVI", "NDWI", "CVI", "CVIn", "LAI"}

\* The calculator classes vegetation_index_calculator.py defines; no other
\* module of the repository defines a class of these or the other names.
CalculatorClasses == {"NDVI", "EVI", "GNDVI", "CVI"}

\* The dict literal indicator_map, in the order its entries are evaluated:
\* each value is a call of the class of that name.
IndicatorMapEntries ==
    << [key |-> "NDVI", class |-> "NDVI"],
       [key |-> "EVI", class |-> "EVI"],
       [key |-> "CVI", class |-> "CVI"],
       [key |-> "GNDVI", class |-> "GNDVI"],
       [key |-> "NDWI", class |-> "NDWI"],
       [key |-> "LAI", class |-> "LAI"] >>

\* One pixel of an image: its four bands, each a reflectance or NaN.
BandValues == {NaN} \cup {Fin(n) : n \in 0..MaxBand}

Images == [nir : BandValues, red : BandValues, green : BandValues, blue : BandValues]

\* A band value as an exact quotient.
ToQ(a) == IF a.kind = "fin" THEN Rat(a.v, 1) ELSE a

\* The sign of a float that is not NaN.
QSign(a) ==
    IF a.kind = "inf" THEN a.v
    ELSE IF a.num > 0 THEN 1 ELSE IF a.num < 0 THEN 0 - 1 ELSE 0

QInf(sign) == [kind |-> "inf", v |-> sign]

QNeg(a) ==
    CASE a.kind = "nan" -> NaN
      [] a.kind = "inf" -> QInf(0 - a.v)
      [] OTHER -> Rat(0 - a.num, a.den)

\* a + b in IEEE arithmetic: opposite infinities add up to NaN.
QAdd(a, b) ==
    IF IsNaN(a) \/ IsNaN(b) THEN NaN
    ELSE IF a.kind = "inf"
         THEN IF b.kind = "inf" /\ b.v # a.v THEN NaN ELSE a
         ELSE IF b.kind = "inf" THEN b
              ELSE Rat(a.num * b.den + b.num * a.den, a.den * b.den)

QSub(a, b) == QAdd(a, QNeg(b))

\* a * b in IEEE arithmetic: an infinity times zero is NaN.
QMul(a, b) ==
    IF IsNaN(a) \/ IsNaN(b) THEN NaN
    ELSE IF a.kind = "inf" \/ b.kind = "inf"
         THEN IF QSign(a) = 0 \/ QSign(b) = 0 THEN NaN
              ELSE QInf(QSign(a) * QSign(b))
         ELSE Rat(a.num * b.num, a.den * b.den)

\* a / b in IEEE arithmetic: 0 / 0 and inf / inf are NaN, x / 0 is an
\* infinity of the sign of x (the zero divisors here are sums of
\* non-negative reflectances, so positive zeros).
QDiv(a, b) ==
    IF IsNaN(a) \/ IsNaN(b) THEN NaN
    ELSE IF a.kind = "inf"
         THEN IF b.kind = "inf" THEN NaN
              ELSE QInf(a.v * (IF QSign(b) < 0 THEN 0 - 1 ELSE 1))
         ELSE IF b.kind = "inf" THEN Rat(0, 1)
              ELSE IF b.num = 0
                   THEN IF a.num = 0 THEN NaN ELSE QInf(QSign(a))
                   ELSE IF b.num > 0
                        THEN Rat(a.num * b.den, a.den * b.num)
                        ELSE Rat(0 - a.num * b.den, 0 - a.den * b.num)

\* NDVI.calculate: (nir - red) / (nir + red)
NDVI_calculate(image) ==
    QDiv(QSub(ToQ(image.nir), ToQ(image.red)),
         QAdd(ToQ(image.nir), ToQ(image.red)))

\* EVI.calculate: 2.5 * ((nir - red) / (nir + 6 * red - 7.5 * blue + 1))
EVI_calculate(image) ==
    QMul(Rat(5, 2),
         QDiv(QSub(ToQ(image.nir), ToQ(image.red)),
              QAdd(QSub(QAdd(ToQ(image.nir), QMul(Rat(6, 1), ToQ(image.red))),
                        QMul(Rat(15, 2), ToQ(image.blue))),
                   Rat(1, 1))))

\* GNDVI.calculate: (nir - green) / (nir + green)
GNDVI_calculate(image) ==
    QDiv(QSub(ToQ(image.nir), ToQ(image.green)),
         QAdd(ToQ(image.nir), ToQ(image.green)))

\* CVI.calculate: nir * (red / green)
CVI_calculate(image) ==
    QMul(ToQ(image.nir), QDiv(ToQ(image.red), ToQ(image.green)))

\* index.calculate(image) for an instance of the class.
Calculate(class, image) ==
    CASE class = "NDVI" -> NDVI_calculate(image)
      [] class = "EVI" -> EVI_calculate(image)
      [] class = "GNDVI" -> GNDVI_calculate(image)
      [] class = "CVI" -> CVI_calculate(image)

\* The whole call. The dict literal is built on every call, before the
\* lookup: a value whose class name is bound to nothing raises NameError.
\* Then indicator_map.get(indicator) is None for a key the dict lacks, which
\* raises ValueError("Invalid vegetation indicator.").
calculate_vegetation_index(image, indicator) ==
    LET unbound == {i \in 1..Len(IndicatorMapEntries) :
                       IndicatorMapEntries[i].class \notin CalculatorClasses}
        index == {i \in 1..Len(IndicatorMapEntries) :
                       IndicatorMapEntries[i].key = indicator}
    IN IF unbound # {}
       THEN [pc |-> "raised", error |-> "NameError"]
       ELSE IF index = {}
            THEN [pc |-> "raised", error |-> "ValueError"]
            ELSE [pc |-> "returned",
                  name |-> IndicatorMapEntries[CHOOSE i \in index : TRUE].class,
                  value |-> Calculate(IndicatorMapEntries[CHOOSE i \in index : TRUE].class,
                                      image)]

InitVI ==
    /\ vi \in {[pc |-> "ready", indicator |-> indicator, image |-> image] :
                  indicator \in VegetationIndex, image \in Images}
    /\ DatesIdle /\ DiffIdle /\ AreaIdle /\ StacIdle /\ RunIdle /\ RepeatIdle /\ RestIdle

\* One call on the image, for the indicator.
ViCall ==
    /\ vi.pc = "ready"
    /\ vi' = [pc |-> "done",
              indicator |-> vi.indicator,
              image |-> vi.image,
              result |-> calculate_vegetation_index(vi.image, vi.indicator)]
    /\ UNCHANGED <<dateVars, diffVars, area, stac, run, repeat, restVars>>

NextVI == ViCall

SpecVI == InitVI /\ [][NextVI]_vars

\* ---------------------------------------- calculate_vegetation_index: claims

\* The indicators with a formula in vegetation_index_calculator.py.
Implemented == {"NDVI", "EVI", "GNDVI", "CVI"}

\* C14: called with an indicator that has no formula (NDWI, LAI, CVIn), the
\* call raises the error that names the indicator as unsupported, the
\* ValueError "Invalid vegetation indicator."; it returns no raster.
C14_UnimplementedRaisesUnsupported ==
    (vi.pc = "done" /\ vi.indicator \notin Implemented) =>
        /\ vi.result.pc = "raised"
        /\ vi.result.error = "ValueError"

\* What does hold of every call for an indicator without a formula: it
\* raises (whatever the error) and returns no raster.
UnimplementedReturnsNoRaster ==
    (vi.pc = "done" /\ vi.indicator \notin Implemented) => vi.result.pc = "raised"

\* C15: called with an implemented indicator (NDVI, EVI, GNDVI, CVI), the
\* call returns, and what it returns is the result of the formula of that
\* indicator on the bands of the image.
C15_ImplementedReturnsOwnFormula ==
    (vi.pc = "done" /\ vi.indicator \in Implemented) =>
        /\ vi.result.pc = "returned"
        /\ vi.result.name = vi.indicator
        /\ vi.result.value = Calculate(vi.indicator, vi.image)

\* -------------------------------------------------------- upload_to_cloud_storage
\* (utils.py 88-127)

\* CloudStorageProvider (cloud_storage_provider.py).
CloudStorageProviders == {"AWS", "AZURE"}

\* What the write function of the storage library does with the folder
\* (aws_s3.write_folder_to_aws_s3, upload_directory_to_azure_blob_storage):
\* it returns a true value, returns a false value, or raises.
WriteOutcomes == {"true", "false", "raise"}

\* The whole call: the link when the write returns true, None (the end of
\* the function body) when it returns false, and RuntimeError raised from
\* the except clause when anything in the try block raises.
upload_to_cloud_storage(cloud_storage_provider, write) ==
    IF write = "raise"
    THEN [pc |-> "raised", error |-> "RuntimeError"]
    ELSE IF cloud_storage_provider = "AWS"
         THEN IF write = "true"
              THEN [pc |-> "returned", value |-> "s3_uri_path"]
              ELSE [pc |-> "returned", value |-> "None"]
         ELSE IF cloud_storage_provider = "AZURE"
              THEN IF write = "true"
                   THEN [pc |-> "returned", value |-> "azure_blob_url_path"]
                   ELSE [pc |-> "returned", value |-> "None"]
              ELSE [pc |-> "returned", value |-> "None"]

\* ------------------------------- ImpactedAreasIdentificationProcessor.trigger
\* (processor.py 150-221, with predict 98-148 and
\* identify_vi_impacted_area_based_on_map_reference 352-419 inlined)

\* The stages of predict, in the order of the code.
PredictStages ==
    << "parse_event_date", "get_enum_member", "coverage_lookup",
       "find_nearest_dates", "time_series_fetch", "difference_filter",
       "impacted_area" >>

\* The stages of trigger, in the order of the code.
TriggerStages ==
    <<"prepare_data">> \o PredictStages \o
    << "load", "zarr_write", "rename", "upload", "clean_local",
       "output_model", "metrics", "return" >>

\* The position of a stage in trigger.
StageIndex(stage) == CHOOSE i \in 1..Len(TriggerStages) : TriggerStages[i] = stage

\* The inputs of a run: the polygon of the input data reads as WKT or not,
\* and the constructor arguments cloud_storage_provider, entity_id,
\* clean_local_file and metrics.
NewRuns ==
    {[pc |-> "prepare_data",
      polygon_valid |-> polygon_valid,
      provider |-> provider,
      entity_id |-> entity_id,
      clean_local_file |-> clean_local_file,
      metrics |-> metrics,
      attempted |-> <<>>,
      failed |-> "none",
      upload |-> [write |-> "none", outcome |-> [pc |-> "none"]],
      result |-> "none"] :
        polygon_valid \in BOOLEAN, provider \in CloudStorageProviders,
        entity_id \in BOOLEAN, clean_local_file \in BOOLEAN, metrics \in BOOLEAN}

\* The current stage ends normally and trigger goes on with the stage next.
Passed(r, next) == [r EXCEPT !.pc = next, !.attempted = Append(@, r.pc)]

\* Mutant of Failed: an exception of predict is swallowed and trigger goes
\* on with datacube.load().
Failed_PredictSwallowed(r) ==
    IF \E i \in 1..Len(PredictStages) : PredictStages[i] = r.pc
    THEN [r EXCEPT !.pc = "load", !.attempted = Append(@, r.pc), !.failed = r.pc]
    ELSE [r EXCEPT !.pc = "raised", !.attempted = Append(@, r.pc), !.failed = r.pc]

\* The current stage raises: trigger and predict have no try block, so the
\* exception leaves trigger there.
Failed(r) ==
    [r EXCEPT !.pc = "raised", !.attempted = Append(@, r.pc), !.failed = r.pc]

\* A stage whose outcome the environment decides.
EitherWay(r, next) == {Passed(r, next), Failed(r)}

InitTrigger ==
    /\ run \in NewRuns
    /\ DatesIdle /\ DiffIdle /\ AreaIdle /\ ViIdle /\ StacIdle /\ RepeatIdle /\ RestIdle

\* self.prepare_data(): check_cloud_storage_provider_credentials raises
\* ValueError when a credential is missing.
PrepareData ==
    /\ run.pc = "prepare_data"
    /\ run' \in EitherWay(run, "parse_event_date")
    /\ UNCHANGED <<dateVars, diffVars, area, vi, stac, repeat, restVars>>

\* predict: datetime.strptime of the eventDate string.
ParseEventDate ==
    /\ run.pc = "parse_event_date"
    /\ run' \in EitherWay(run, "get_enum_member")
    /\ UNCHANGED <<dateVars, diffVars, area, vi, stac, repeat, restVars>>

\* predict: get_enum_member_from_name, evaluated as the last argument of the
\* call of identify_vi_impacted_area_based_on_map_reference.
GetEnumMember ==
    /\ run.pc = "get_enum_member"
    /\ run' \in EitherWay(run, "coverage_lookup")
    /\ UNCHANGED <<dateVars, diffVars, area, vi, stac, repeat, restVars>>

\* get_image_coverage_info_based_on_map_reference: the first request to the
\* imagery provider, with the polygon string as it came.
CoverageLookup ==
    /\ run.pc = "coverage_lookup"
    /\ run' \in EitherWay(run, "find_nearest_dates")
    /\ UNCHANGED <<dateVars, diffVars, area, vi, stac, repeat, restVars>>

\* find_nearest_dates on the coverage dates: raises when a side is empty.
FindNearestDates ==
    /\ run.pc = "find_nearest_dates"
    /\ run' \in EitherWay(run, "time_series_fetch")
    /\ UNCHANGED <<dateVars, diffVars, area, vi, stac, repeat, restVars>>

\* get_vi_image_time_series: the second request to the imagery provider.
TimeSeriesFetch ==
    /\ run.pc = "time_series_fetch"
    /\ run' \in EitherWay(run, "difference_filter")
    /\ UNCHANGED <<dateVars, diffVars, area, vi, stac, repeat, restVars>>

\* The two .sel and calculate_and_filter_vi_difference_by_threshold.
DifferenceFilter ==
    /\ run.pc = "difference_filter"
    /\ run' \in EitherWay(run, "impacted_area")
    /\ UNCHANGED <<dateVars, diffVars, area, vi, stac, repeat, restVars>>

\* calculate_impacted_area: the first place where the polygon is read as
\* WKT (calculate_geometry_area); then the results are formatted and predict
\* returns.
ImpactedArea ==
    /\ run.pc = "impacted_area"
    /\ run' = IF run.polygon_valid THEN Passed(run, "load") ELSE Failed(run)
    /\ UNCHANGED <<dateVars, diffVars, area, vi, stac, repeat, restVars>>

\* datacube.load()
Load ==
    /\ run.pc = "load"
    /\ run' \in EitherWay(run, "zarr_write")
    /\ UNCHANGED <<dateVars, diffVars, area, vi, stac, repeat, restVars>>

\* dataset_to_zarr_format: the zarr folder is written to the temporary
\* directory.
ZarrWrite ==
    /\ run.pc = "zarr_write"
    /\ run' \in EitherWay(run, IF run.entity_id THEN "rename" ELSE "upload")
    /\ UNCHANGED <<dateVars, diffVars, area, vi, stac, repeat, restVars>>

\* os.rename, when an entity_id is given.
Rename ==
    /\ run.pc = "rename"
    /\ run' \in EitherWay(run, "upload")
    /\ UNCHANGED <<dateVars, diffVars, area, vi, stac, repeat, restVars>>

\* upload_to_cloud_storage: RuntimeError leaves trigger, a returned value
\* (a link or None) is kept as cloud_storage_link.
Upload ==
    /\ run.pc = "upload"
    /\ \E write \in WriteOutcomes :
          LET outcome == upload_to_cloud_storage(run.provider, write)
              after == [run EXCEPT !.upload = [write |-> write, outcome |-> outcome]]
          IN run' = IF outcome.pc = "raised"
                    THEN Failed(after)
                    ELSE Passed(after, IF run.clean_local_file
                                       THEN "clean_local" ELSE "output_model")
    /\ UNCHANGED <<dateVars, diffVars, area, vi, stac, repeat, restVars>>

\* delete_local_directory, when clean_local_file is set.
CleanLocal ==
    /\ run.pc = "clean_local"
    /\ run' \in EitherWay(run, "output_model")
    /\ UNCHANGED <<dateVars, diffVars, area, vi, stac, repeat, restVars>>

\* OutputModel(storage_links=cloud_storage_link, ...): storage_links is a
\* required str, so None fails the validation.
BuildOutputModel ==
    /\ run.pc = "output_model"
    /\ run' = IF run.upload.outcome.value = "None"
              THEN Failed(run)
              ELSE Passed(run, IF run.metrics THEN "metrics" ELSE "return")
    /\ UNCHANGED <<dateVars, diffVars, area, vi, stac, repeat, restVars>>

\* result.metrics = Metrics(...), when metrics is set.
AddMetrics ==
    /\ run.pc = "metrics"
    /\ run' = Passed(run, "return")
    /\ UNCHANGED <<dateVars, diffVars, area, vi, stac, repeat, restVars>>

\* return result.model_dump()
Return ==
    /\ run.pc = "return"
    /\ run' = [Passed(run, "returned") EXCEPT !.result = "OutputModel"]
    /\ UNCHANGED <<dateVars, diffVars, area, vi, stac, repeat, restVars>>

NextTrigger ==
    \/ PrepareData
    \/ ParseEventDate
    \/ GetEnumMember
    \/ CoverageLookup
    \/ FindNearestDates
    \/ TimeSeriesFetch
    \/ DifferenceFilter
    \/ ImpactedArea
    \/ Load
    \/ ZarrWrite
    \/ Rename
    \/ Upload
    \/ CleanLocal
    \/ BuildOutputModel
    \/ AddMetrics
    \/ Return

SpecTrigger == InitTrigger /\ [][NextTrigger]_vars

\* ------------------------------------------------------------ trigger: claims

\* The stages that were entered, whether they ended normally or raised.
Attempted == {run.attempted[i] : i \in 1..Len(run.attempted)}

\* C16: a polygon that does not read as WKT is reported before any request
\* to the imagery provider: with such a polygon neither the coverage lookup
\* nor the time-series fetch is ever entered.
C16_BadPolygonBeforeProviderCall ==
    (run.pc # "idle" /\ ~run.polygon_valid) =>
        /\ "coverage_lookup" \notin Attempted
        /\ "time_series_fetch" \notin Attempted

\* C17: once a stage of trigger has raised, trigger has ended there: no
\* stage after it in the code was entered, no output model is returned, and
\* after a failure inside predict nothing was written to zarr or uploaded.
C17_FailFast ==
    (run.pc # "idle" /\ run.failed # "none") =>
        /\ run.pc = "raised"
        /\ run.result = "none"
        /\ \A s \in Attempted : StageIndex(s) <= StageIndex(run.failed)
        /\ StageIndex(run.failed) <= StageIndex("impacted_area") =>
              /\ "zarr_write" \notin Attempted
              /\ "upload" \notin Attempted

\* C17 witness: a run whose time-series fetch raised, after the coverage
\* lookup and the bracket selection had passed.
C17_Witness ==
    /\ run.pc = "raised"
    /\ run.failed = "time_series_fetch"
    /\ "find_nearest_dates" \in Attempted

\* C20: upload_to_cloud_storage returns the storage link when the upload
\* succeeds and returns None when it fails (the write returns false or
\* raises), for both providers.
C20_UploadReturnsLinkOrNone ==
    (run.pc # "idle" /\ run.upload.write # "none") =>
        /\ run.upload.outcome.pc = "returned"
        /\ run.upload.write = "true" =>
              run.upload.outcome.value \in {"s3_uri_path", "azure_blob_url_path"}
        /\ run.upload.write # "true" => run.upload.outcome.value = "None"

\* ------------------------- identify_vi_impacted_area_based_on_stac_images
\* (impacted_areas_identification.py 132-169, 469-488, 570-598)

\* The largest day of a slice or of the event, the most slices of a
\* datacube, and the most pixels of the polygon.
MaxStacDay == 3
MaxSlices == 2
MaxPix == 2

\* A time stamp is a day and whether it lies at midnight or later in that
\* day: 2 * day for midnight, 2 * day + 1 for later.
Midnight(day) == 2 * day

StacTimes == Midnight(1)..(Midnight(MaxStacDay) + 1)

StacDays == 1..MaxStacDay

\* Values of max_cloud_cover_percentage.
CloudCovers == {0, 50, 100}

\* A slice of the masked datacube: its time stamp and the number of pixels
\* of its red band that are not null once the cloud mask is applied.
StacSlices == [time : StacTimes, clear : 0..MaxPix]

\* The datacubes get_free_cloud_images_using_stac_catalog can return: at
\* least one slice (raw_image_size is read from the slice at index 0),
\* increasing time stamps without duplicates, and raw_image_size the number
\* of non-null red pixels of the first raw slice, which the masked first
\* slice cannot exceed.
Datacubes ==
    {[slices |-> s, raw_image_size |-> n] :
        s \in {q \in UNION {[1..k -> StacSlices] : k \in 1..MaxSlices} :
                  \A i \in 1..(Len(q) - 1) : q[i].time < q[i + 1].time},
        n \in 0..MaxPix}

ReachableDatacubes == {d \in Datacubes : d.slices[1].clear <= d.raw_image_size}

\* clear / raw_image_size > bound / 100, as xarray computes it: with a zero
\* divisor the quotient is NaN (never greater) for 0 / 0 and +inf (always
\* greater) otherwise.
ClearFractionAbove(clear, raw_image_size, bound) ==
    IF raw_image_size = 0
    THEN clear > 0
    ELSE clear * 100 > bound * raw_image_size

\* The test of the loop before the event: > 1 - max_cloud_cover_percentage * 0.01
PassesBefore(datacube, i, max_cloud_cover_percentage) ==
    ClearFractionAbove(datacube.slices[i].clear, datacube.raw_image_size,
                       100 - max_cloud_cover_percentage)

\* The test of the loop after the event: > max_cloud_cover_percentage * 0.01
PassesAfter(datacube, i, max_cloud_cover_percentage) ==
    ClearFractionAbove(datacube.slices[i].clear, datacube.raw_image_size,
                       max_cloud_cover_percentage)

\* datacube.sel(time=slice(None, (event_date + timedelta(days=-1)).date())):
\* the date bounds the labels as its midnight, inclusive.
InBeforeSlice(datacube, i, event_day) ==
    datacube.slices[i].time <= Midnight(event_day - 1)

\* Mutant of InAfterSlice: the selection starts on the day of the event.
InAfterSlice_FromEventDay(datacube, i, event_day) ==
    datacube.slices[i].time >= Midnight(event_day)

\* datacube.sel(time=slice((event_date + timedelta(days=1)).date(), None))
InAfterSlice(datacube, i, event_day) ==
    datacube.slices[i].time >= Midnight(event_day + 1)

\* The first loop: the slices of the before selection from the latest to
\* the earliest, stopped at the first that passes. 0 when none passes.
RECURSIVE ScanBefore(_, _, _, _)
ScanBefore(datacube, event_day, max_cloud_cover_percentage, i) ==
    IF i = 0 THEN 0
    ELSE IF /\ InBeforeSlice(datacube, i, event_day)
            /\ PassesBefore(datacube, i, max_cloud_cover_percentage)
         THEN i
         ELSE ScanBefore(datacube, event_day, max_cloud_cover_percentage, i - 1)

\* The second loop: the slices of the after selection from the earliest to
\* the latest, stopped at the first that passes. 0 when none passes.
RECURSIVE ScanAfter(_, _, _, _)
ScanAfter(datacube, event_day, max_cloud_cover_percentage, i) ==
    IF i > Len(datacube.slices) THEN 0
    ELSE IF /\ InAfterSlice(datacube, i, event_day)
            /\ PassesAfter(datacube, i, max_cloud_cover_percentage)
         THEN i
         ELSE ScanAfter(datacube, event_day, max_cloud_cover_percentage, i + 1)

\* The dict time_index_to_keep: a key is set only when its loop found a
\* slice.
get_nearest_event_date_time_indices(datacube, event_day, max_cloud_cover_percentage) ==
    LET b == ScanBefore(datacube, event_day, max_cloud_cover_percentage,
                        Len(datacube.slices))
        a == ScanAfter(datacube, event_day, max_cloud_cover_percentage, 1)
    IN [k \in (IF b = 0 THEN {} ELSE {"before_event_date"})
              \cup (IF a = 0 THEN {} ELSE {"after_event_date"}) |->
           IF k = "before_event_date"
           THEN datacube.slices[b].time
           ELSE datacube.slices[a].time]

\* images_datacube.sel(time=t): the slice of that time stamp.
SelTime(datacube, t) ==
    datacube.slices[CHOOSE i \in 1..Len(datacube.slices) : datacube.slices[i].time = t]

\* One pixel of a slice, as the image handed to calculate_vegetation_index:
\* NaN in every band when the mask left no pixel, a reflectance otherwise.
SlicePixel(s) ==
    LET b == IF s.clear = 0 THEN NaN ELSE Fin(1)
    IN [nir |-> b, red |-> b, green |-> b, blue |-> b]

\* What follows the selection of the two slices: the two calls of
\* calculate_vegetation_index (the first is for the before image) and, when
\* both return, calculate_and_filter_vi_difference_by_threshold on a raster
\* of that pixel.
IndexAndDifference(before, after, indicator, threshold) ==
    LET vi_image_before == calculate_vegetation_index(SlicePixel(before), indicator)
        vi_image_after == calculate_vegetation_index(SlicePixel(after), indicator)
    IN IF vi_image_before.pc = "raised"
       THEN [pc |-> "raised", error |-> vi_image_before.error, vi_calls |-> 1]
       ELSE IF vi_image_after.pc = "raised"
            THEN [pc |-> "raised", error |-> vi_image_after.error, vi_calls |-> 2]
            ELSE [pc |-> "returned", vi_calls |-> 2,
                  vi_before_event_date |-> vi_image_before.value,
                  vi_after_event_date |-> vi_image_after.value]

\* Mutant of calculate_vi_images_nearest_event_date: a missing key falls
\* back to the first or the last slice of the datacube.
calculate_vi_images_Defaulted(images_datacube, time_index_to_keep, indicator, threshold) ==
    LET after == IF "after_event_date" \in DOMAIN time_index_to_keep
                 THEN SelTime(images_datacube, time_index_to_keep["after_event_date"])
                 ELSE images_datacube.slices[Len(images_datacube.slices)]
        before == IF "before_event_date" \in DOMAIN time_index_to_keep
                  THEN SelTime(images_datacube, time_index_to_keep["before_event_date"])
                  ELSE images_datacube.slices[1]
    IN IndexAndDifference(before, after, indicator, threshold)

\* calculate_vi_images_nearest_event_date and the difference call after it
\* (lines 165-169): the subscript of line 484, then that of line 485,
\* raises KeyError on a key the dict lacks, before any index is computed.
calculate_vi_images_nearest_event_date(images_datacube, time_index_to_keep, indicator, threshold) ==
    IF "after_event_date" \notin DOMAIN time_index_to_keep
    THEN [pc |-> "raised", error |-> "KeyError", vi_calls |-> 0]
    ELSE IF "before_event_date" \notin DOMAIN time_index_to_keep
         THEN [pc |-> "raised", error |-> "KeyError", vi_calls |-> 0]
         ELSE IndexAndDifference(
                  SelTime(images_datacube, time_index_to_keep["before_event_date"]),
                  SelTime(images_datacube, time_index_to_keep["after_event_date"]),
                  indicator, threshold)

InitStac ==
    /\ stac \in {[pc |-> "search",
                  images_datacube |-> d,
                  event_date |-> e,
                  max_cloud_cover_percentage |-> p] :
                    d \in ReachableDatacubes, e \in StacDays, p \in CloudCovers}
    /\ DatesIdle /\ DiffIdle /\ AreaIdle /\ ViIdle /\ RunIdle /\ RepeatIdle /\ RestIdle

\* Line 163: the search of the two slices.
StacSearch ==
    /\ stac.pc = "search"
    /\ stac' = [pc |-> "compute",
                images_datacube |-> stac.images_datacube,
                event_date |-> stac.event_date,
                max_cloud_cover_percentage |-> stac.max_cloud_cover_percentage,
                time_to_keep |-> get_nearest_event_date_time_indices(
                                     stac.images_datacube, stac.event_date,
                                     stac.max_cloud_cover_percentage)]
    /\ UNCHANGED <<dateVars, diffVars, area, vi, run, repeat, restVars>>

\* Lines 165-169: the indices of the two slices and their difference, for
\* any indicator and threshold.
StacCompute ==
    /\ stac.pc = "compute"
    /\ \E indicator \in VegetationIndex, threshold \in Thresholds :
          stac' = [pc |-> "done",
                   images_datacube |-> stac.images_datacube,
                   event_date |-> stac.event_date,
                   max_cloud_cover_percentage |-> stac.max_cloud_cover_percentage,
                   time_to_keep |-> stac.time_to_keep,
                   result |-> calculate_vi_images_nearest_event_date(
                                  stac.images_datacube, stac.time_to_keep,
                                  indicator, threshold)]
    /\ UNCHANGED <<dateVars, diffVars, area, vi, run, repeat, restVars>>

NextStac == StacSearch \/ StacCompute

SpecStac == InitStac /\ [][NextStac]_vars

\* ------------------- identify_vi_impacted_area_based_on_stac_images: claims

\* The slices of each side of the event that pass the test of that side.
PassingBefore ==
    {i \in 1..Len(stac.images_datacube.slices) :
        /\ InBeforeSlice(stac.images_datacube, i, stac.event_date)
        /\ PassesBefore(stac.images_datacube, i, stac.max_cloud_cover_percentage)}

PassingAfter ==
    {i \in 1..Len(stac.images_datacube.slices) :
        /\ InAfterSlice(stac.images_datacube, i, stac.event_date)
        /\ PassesAfter(stac.images_datacube, i, stac.max_cloud_cover_percentage)}

\* C18: when no slice before the event, or none after it, passes its
\* clear-fraction test, the flow fails with an error (the KeyError of the
\* missing key) and no vegetation index is computed.
C18_MissingEndpointRaises ==
    (stac.pc = "done" /\ (PassingBefore = {} \/ PassingAfter = {})) =>
        /\ stac.result.pc = "raised"
        /\ stac.result.error = "KeyError"
        /\ stac.result.vi_calls = 0

\* C18 witness: a finished flow on a datacube with a slice before the event
\* that fails its test and a slice after the event that passes.
C18_Witness ==
    /\ stac.pc = "done"
    /\ PassingBefore = {}
    /\ PassingAfter # {}
    /\ \E i \in 1..Len(stac.images_datacube.slices) :
          InBeforeSlice(stac.images_datacube, i, stac.event_date)

\* ------------ calculate_and_filter_vi_difference_by_threshold, called twice
\* (processor.py 318-350)

InitRepeat ==
    /\ \E shape \in Shapes :
          /\ vi_before \in AreaRasters(shape[1], shape[2])
          /\ vi_after \in AreaRasters(shape[1], shape[2])
    /\ diff = [pc |-> "ready"]
    /\ repeat = [pc |-> "first"]
    /\ DatesIdle /\ AreaIdle /\ ViIdle /\ StacIdle /\ RunIdle /\ RestIdle

\* The first call, with any threshold; the arguments and the outcome are
\* kept for the comparison.
RepeatFirstCall ==
    /\ repeat.pc = "first"
    /\ \E threshold \in Thresholds :
          /\ diff' = calculate_and_filter_vi_difference_by_threshold(
                         vi_before, vi_after, threshold)
          /\ repeat' = [pc |-> "second",
                        before |-> vi_before,
                        after |-> vi_after,
                        threshold |-> threshold,
                        first |-> diff']
    /\ vi_before' = RastersAfterCall(vi_before, vi_after).before
    /\ vi_after' = RastersAfterCall(vi_before, vi_after).after
    /\ UNCHANGED <<dateVars, area, vi, stac, run, restVars>>

\* The second call, on the rasters as the first call left them and with the
\* same threshold.
RepeatSecondCall ==
    /\ repeat.pc = "second"
    /\ diff' = calculate_and_filter_vi_difference_by_threshold(
                   vi_before, vi_after, repeat.threshold)
    /\ repeat' = [repeat EXCEPT !.pc = "done"]
    /\ vi_before' = RastersAfterCall(vi_before, vi_after).before
    /\ vi_after' = RastersAfterCall(vi_before, vi_after).after
    /\ UNCHANGED <<dateVars, area, vi, stac, run, restVars>>

NextRepeat == RepeatFirstCall \/ RepeatSecondCall

SpecRepeat == InitRepeat /\ [][NextRepeat]_vars

MaxAscLen == 4

\* Every ascending list (repeated dates allowed) of at most MaxAscLen dates.
AscendingDateLists ==
    {dl \in UNION {[1..n -> Days] : n \in 0..MaxAscLen} : IsAscending(dl)}

\* Both classes are called on the same ascending list.
InitAscending ==
    /\ date_list \in AscendingDateLists
    /\ event_date \in Days
    /\ min_duration \in Durations
    /\ proc = NewFrame
    /\ ident = NewFrame
    /\ DiffIdle /\ AreaIdle /\ ViIdle /\ StacIdle /\ RunIdle /\ RepeatIdle /\ RestIdle

SpecAscending == InitAscending /\ [][NextDates]_vars

\* C25 (as claimed): for an ascending date list for which both classes return
\* a bracket, the two find_nearest_dates return the same before_event_date
\* and the same after_event_date.
C25_SameBracketBothClasses ==
    (Returned(proc) /\ Returned(ident) /\ IsAscending(date_list))
    => /\ proc.nearest_inferior = ident.nearest_inferior
       /\ proc.nearest_superior = ident.nearest_superior

RECURSIVE P_find_nearest_dates(_, _, _, _)
P_find_nearest_dates(f, dl, ev, md) ==
    IF f.pc = "start" THEN P_find_nearest_dates(P_Start(f, dl, ev), dl, ev, md)
    ELSE IF f.pc = "loop" THEN P_find_nearest_dates(P_LoopStep(f, dl, ev, md), dl, ev, md)
    ELSE IF f.pc = "after_loop" THEN P_Finish(f, dl, ev)
    ELSE f

\* ImpactedAreasIdentificator.find_nearest_dates run from frame f to its end.
RECURSIVE I_find_nearest_dates(_, _, _, _)
I_find_nearest_dates(f, dl, ev, md) ==
    IF f.pc = "start" THEN I_find_nearest_dates(I_Start(f, dl, ev), dl, ev, md)
    ELSE IF f.pc = "loop" THEN I_find_nearest_dates(I_LoopStep(f, dl, ev, md), dl, ev, md)
    ELSE IF f.pc = "after_loop" THEN I_Finish(f, dl, ev)
    ELSE f

\* The dates of a set as an ascending list without repeats.
RECURSIVE AscendingList(_)
AscendingList(S) ==
    IF S = {} THEN <<>> ELSE <<SetMin(S)>> \o AscendingList(S \ {SetMin(S)})

\* The outcome of a call that has ended: its bracket, or that it raised.
Outcome(f) ==
    IF Returned(f)
    THEN [before_event_date |-> f.nearest_inferior,
          after_event_date |-> f.nearest_superior]
    ELSE [raised |-> TRUE]

\* C27 (as claimed): the bracket returned by find_nearest_dates depends only
\* on the set of dates: the call on the list as handed over (any order, with
\* repeats) returns the same bracket as the call on the same dates in
\* ascending order without repeats.
C27_BracketDependsOnlyOnDateSet ==
    LET ordered == AscendingList(Range(date_list)) IN
    /\ Returned(proc) =>
           Outcome(proc) =
               Outcome(P_find_nearest_dates(NewFrame, ordered, event_date, min_duration))
    /\ Returned(ident) =>
           Outcome(ident) =
               Outcome(I_find_nearest_dates(NewFrame, ordered, event_date, min_duration))

\* ------------------------------ get_nearest_event_date_time_indices: claims

\* The calendar day of a time stamp.
DayOf(t) == t \div 2

\* The slices dated strictly before, and strictly after, the day of the event.
StrictlyBefore ==
    {i \in 1..Len(stac.images_datacube.slices) :
        DayOf(stac.images_datacube.slices[i].time) < stac.event_date}

StrictlyAfter ==
    {i \in 1..Len(stac.images_datacube.slices) :
        DayOf(stac.images_datacube.slices[i].time) > stac.event_date}

\* The search of the two slices has been made.
Searched == stac.pc \in {"compute", "done"}

\* C21 (as claimed): the before slice is the latest slice dated strictly
\* before the event date whose clear fraction exceeds
\* 1 - max_cloud_cover_percentage/100: one is selected when such a slice
\* exists, no later slice before the event date passes that test, and a
\* slice dated on the event date is never selected.
C21_BeforeIsLatestPassingBeforeEvent ==
    Searched =>
        LET passing == {i \in StrictlyBefore :
                           PassesBefore(stac.images_datacube, i,
                                        stac.max_cloud_cover_percentage)}
        IN IF passing = {}
           THEN "before_event_date" \notin DOMAIN stac.time_to_keep
           ELSE /\ "before_event_date" \in DOMAIN stac.time_to_keep
                /\ \E i \in passing :
                      /\ stac.time_to_keep["before_event_date"] =
                             stac.images_datacube.slices[i].time
                      /\ \A j \in passing : j <= i

\* C22: the after slice is the earliest slice dated strictly after the
\* event date whose clear fraction exceeds max_cloud_cover_percentage/100:
\* one is selected exactly when such a slice exists, no earlier slice after
\* the event date passes that test, and a slice dated on the event date is
\* never selected.
C22_AfterIsEarliestPassingAfterEvent ==
    Searched =>
        LET passing == {i \in StrictlyAfter :
                           PassesAfter(stac.images_datacube, i,
                                       stac.max_cloud_cover_percentage)}
        IN IF passing = {}
           THEN "after_event_date" \notin DOMAIN stac.time_to_keep
           ELSE /\ "after_event_date" \in DOMAIN stac.time_to_keep
                /\ DayOf(stac.time_to_keep["after_event_date"]) # stac.event_date
                /\ \E i \in passing :
                      /\ stac.time_to_keep["after_event_date"] =
                             stac.images_datacube.slices[i].time
                      /\ \A j \in passing : i <= j

\* C22 witness: two slices after the event date, the first fails the test
\* and the second is selected.
C22_Witness ==
    /\ Searched
    /\ Cardinality(StrictlyAfter) = 2
    /\ stac.images_datacube.raw_image_size > 0
    /\ ~PassesAfter(stac.images_datacube, 1, stac.max_cloud_cover_percentage)
    /\ "after_event_date" \in DOMAIN stac.time_to_keep
    /\ stac.time_to_keep["after_event_date"] = stac.images_datacube.slices[2].time

\* The slices whose clear fraction one of the two loops computes: those of
\* the before selection down to the one selected, those of the after
\* selection up to the one selected.
Examined ==
    LET d == stac.images_datacube
        b == ScanBefore(d, stac.event_date, stac.max_cloud_cover_percentage,
                        Len(d.slices))
        a == ScanAfter(d, stac.event_date, stac.max_cloud_cover_percentage, 1)
    IN {i \in 1..Len(d.slices) : InBeforeSlice(d, i, stac.event_date) /\ i >= b}
       \cup {i \in 1..Len(d.slices) :
                InAfterSlice(d, i, stac.event_date) /\ (a = 0 \/ i <= a)}

\* C28 (as claimed): for every slice whose clear fraction is compared,
\* raw_image_size > 0 and the fraction clear / raw_image_size lies in [0, 1].
C28_ClearFractionInUnitInterval ==
    Searched =>
        \A i \in Examined :
            /\ stac.images_datacube.raw_image_size > 0
            /\ stac.images_datacube.slices[i].clear >= 0
            /\ stac.images_datacube.slices[i].clear <= stac.images_datacube.raw_image_size

\* ------------------------------------------------ the imagery search window
\* (processor.py 223-247; impacted_areas_identification.py 198-219, 515-532)

\* Years are counted from a leap year: 0..MaxYear.
MaxYear == 1

Years == 0..MaxYear
Months == 1..12

IsLeapYear(year) == year % 4 = 0

\* The length of a month of the calendar.
DaysInMonth(year, month) ==
    IF month = 2 THEN (IF IsLeapYear(year) THEN 29 ELSE 28)
    ELSE IF month \in {4, 6, 9, 11} THEN 30
    ELSE 31

\* A datetime.datetime: a calendar day and whether its time is 00:00:00
\* (later = 0) or later in the day (later = 1).
Datetime(year, month, day, later) ==
    [year |-> year, month |-> month, day |-> day, later |-> later]

\* datetime.date(): the calendar day, at no time of the day.
DateOf(t) == [year |-> t.year, month |-> t.month, day |-> t.day]

\* The order of dates and datetimes; a date compares as its midnight.
Instant(t) ==
    ((t.year * 12 + (t.month - 1)) * 31 + (t.day - 1)) * 2
    + (IF "later" \in DOMAIN t THEN t.later ELSE 0)

\* t + relativedelta(months=k): the month is moved by k, the day is cut to
\* the length of the month reached, the time of day is kept.
AddMonths(t, k) ==
    LET total == t.year * 12 + (t.month - 1) + k
        year == total \div 12
        month == (total % 12) + 1
        last == DaysInMonth(year, month)
    IN [t EXCEPT !.year = year, !.month = month,
                 !.day = IF t.day > last THEN last ELSE t.day]

\* The event dates: predict and the API build them as datetime(y, m, d), at
\* midnight. The first day and the days 28 to 31 of every month.
EventDates ==
    UNION {{Datetime(y, m, d, 0) : d \in {1, 28, 29, 30, 31} \cap (1..DaysInMonth(y, m))} :
              y \in Years, m \in Months}

\* The values datetime.today() returns: the first and the last day of every
\* month, at midnight or later in the day.
Todays ==
    UNION {{Datetime(y, m, d, l) : d \in {1, DaysInMonth(y, m)}, l \in {0, 1}} :
              y \in Years, m \in Months}

\* processor.py 237: end_date = min(end_date, datetime.today())
P_ClampToToday(end_date, today) ==
    IF Instant(end_date) <= Instant(today) THEN end_date ELSE today

\* Mutant of I_ClampToToday: the end is never clamped.
I_ClampToToday_Never(end_date, today) == end_date

\* impacted_areas_identification.py 214-215 and 528-529:
\* if end_date > dt.datetime.today(): end_date = dt.datetime.today().date()
I_ClampToToday(end_date, today) ==
    IF Instant(end_date) > Instant(today) THEN DateOf(today) ELSE end_date

\* ImpactedAreasIdentificationProcessor.get_image_coverage_info_based_on_map_reference:
\* the start_date and end_date handed to the coverage request.
P_get_image_coverage_info_based_on_map_reference(event, today) ==
    [start_date |-> AddMonths(event, -6),
     end_date |-> P_ClampToToday(AddMonths(event, 6), today)]

\* ImpactedAreasIdentificator.get_image_coverage_info_based_on_map_reference
I_get_image_coverage_info_based_on_map_reference(event, today) ==
    [start_date |-> AddMonths(event, -6),
     end_date |-> I_ClampToToday(AddMonths(event, 6), today)]

\* strftime("%Y-%m-%d"): the day is written, the time of day is not.
Strftime(t) == DateOf(t)

\* ImpactedAreasIdentificator.calculate_date_range: the two halves of the
\* string start_date/end_date.
calculate_date_range(event, today) ==
    [start_date |-> Strftime(AddMonths(event, -6)),
     end_date |-> Strftime(I_ClampToToday(AddMonths(event, 6), today))]

InitWindow ==
    /\ window \in {[pc |-> "ready", event_date |-> e, today |-> t] :
                      e \in EventDates, t \in Todays}
    /\ DatesIdle /\ DiffIdle /\ AreaIdle /\ ViIdle /\ StacIdle /\ RunIdle /\ RepeatIdle
    /\ CubeIdle /\ ZarrIdle

\* The window a function computed, kept with its inputs.
Computed(fn, range) ==
    [pc |-> "done", fn |-> fn, event_date |-> window.event_date,
     today |-> window.today,
     start_date |-> range.start_date, end_date |-> range.end_date]

WindowProcessor ==
    /\ window.pc = "ready"
    /\ window' = Computed("processor",
                          P_get_image_coverage_info_based_on_map_reference(
                              window.event_date, window.today))
    /\ UNCHANGED <<dateVars, diffVars, area, vi, stac, run, repeat, cube, zarr>>

WindowIdentificator ==
    /\ window.pc = "ready"
    /\ window' = Computed("identificator",
                          I_get_image_coverage_info_based_on_map_reference(
                              window.event_date, window.today))
    /\ UNCHANGED <<dateVars, diffVars, area, vi, stac, run, repeat, cube, zarr>>

WindowDateRange ==
    /\ window.pc = "ready"
    /\ window' = Computed("calculate_date_range",
                          calculate_date_range(window.event_date, window.today))
    /\ UNCHANGED <<dateVars, diffVars, area, vi, stac, run, repeat, cube, zarr>>

NextWindow == WindowProcessor \/ WindowIdentificator \/ WindowDateRange

SpecWindow == InitWindow /\ [][NextWindow]_vars

\* ------------------------------------------ the imagery search window: claims

\* The months between two calendar days, counted on the calendar.
MonthsFrom(a, b) == (b.year * 12 + b.month) - (a.year * 12 + a.month)

\* Calendar day b is day a moved by k months: k months apart, on the same
\* day of the month or on the last day of a shorter month.
MovedByMonths(a, b, k) ==
    /\ MonthsFrom(a, b) = k
    /\ b.day = IF a.day <= DaysInMonth(b.year, b.month)
               THEN a.day ELSE DaysInMonth(b.year, b.month)

\* Calendar day a is not later than calendar day b.
NotLaterDay(a, b) ==
    \/ a.year < b.year
    \/ a.year = b.year /\ a.month < b.month
    \/ a.year = b.year /\ a.month = b.month /\ a.day <= b.day

\* The calendar day six months after calendar day a.
SixMonthsAfter(a) ==
    CHOOSE b \in {[year |-> y, month |-> ((a.month + 5) % 12) + 1, day |-> d] :
                     y \in {a.year, a.year + 1}, d \in 1..31} :
        MovedByMonths(a, b, 6)

\* C23: in calculate_date_range and in
\* get_image_coverage_info_based_on_map_reference of both classes the search
\* window starts 6 months before the event date and ends at the earlier of
\* (event date + 6 months) and today, so its end never exceeds today.
C23_WindowClampedToToday ==
    window.pc = "done" =>
        LET start_day == DateOf(window.start_date)
            end_day == DateOf(window.end_date)
            event_day == DateOf(window.event_date)
            today == DateOf(window.today)
        IN /\ MovedByMonths(event_day, start_day, -6)
           /\ end_day = IF NotLaterDay(SixMonthsAfter(event_day), today)
                        THEN SixMonthsAfter(event_day)
                        ELSE today
           /\ NotLaterDay(end_day, today)
           /\ Instant(window.end_date) <= Instant(window.today)

\* C23 witness: a window of the Identificator that was clamped, for an event
\* on the 31st of a month whose start fell on the shorter month's last day.
C23_Witness ==
    /\ window.pc = "done"
    /\ window.fn = "identificator"
    /\ window.event_date.day = 31
    /\ DateOf(window.start_date).day = 30
    /\ DateOf(window.end_date) = DateOf(window.today)
    /\ window.today.later = 1

\* --------------------------------- apply_cloud_mask_to_raw_images_datacube
\* (impacted_areas_identification.py 315-325, 365-393, 395-423, 425-439)

\* The largest reflectance of a raw pixel.
MaxReflectance == 2

\* The red band of a raw pixel once clipped: NaN outside the polygon and
\* where the raw value was 0 (.where(lambda x: x != 0)), a reflectance
\* otherwise.
RawValues == {NaN} \cup {Fin(n) : n \in 1..MaxReflectance}

\* The agriculture-cloud-mask band of a mask pixel, clipped the same way:
\* NaN, 1 (clear) or another class.
MaskValues == {NaN, Fin(1), Fin(2)}

\* The pixels of the polygon, the same grid for both cubes.
CubePixels == {1, 2}

\* Time stamps in half seconds: 2 * s is the whole second s, 2 * s + 1 a
\* time within that second.
WholeSecond(s) == 2 * s

CubeSeconds == {1, 2}

\* The raw cubes get_raw_images_from_stac returns: time stamps floored to
\* the second, duplicates dropped, in ascending order, at least one slice.
RawCubes ==
    {q \in UNION {[1..k -> [time : {WholeSecond(s) : s \in CubeSeconds},
                            red : [CubePixels -> RawValues]]] : k \in 1..2} :
        \A i \in 1..(Len(q) - 1) : q[i].time < q[i + 1].time}

\* The mask cubes get_cloud_mask_from_stac returns: the time stamps are kept
\* as the catalog gave them, in ascending order.
MaskCubes ==
    {q \in UNION {[1..k -> [time : UNION {{WholeSecond(s), WholeSecond(s) + 1} :
                                             s \in CubeSeconds},
                            mask : [CubePixels -> MaskValues]]] : k \in 1..2} :
        \A i \in 1..(Len(q) - 1) : q[i].time < q[i + 1].time}

\* The number of pixels of a band that are not null: notnull().sum()
NotNullPixels(band) == Cardinality({p \in DOMAIN band : NotNull(band[p])})

\* calculate_geometry_image_size: raw_datacube['red'].isel(time=0).notnull().sum()
calculate_geometry_image_size(raw_datacube) == NotNullPixels(raw_datacube[1].red)

\* The raw slices whose time stamp is also a time stamp of the mask cube, in
\* the order of the raw cube: the alignment of the two cubes (inner join).
RECURSIVE SharedSlices(_, _)
SharedSlices(raw_datacube, mask_datacube) ==
    IF raw_datacube = <<>> THEN <<>>
    ELSE (IF \E i \in 1..Len(mask_datacube) :
                 mask_datacube[i].time = raw_datacube[1].time
          THEN <<raw_datacube[1]>>
          ELSE <<>>)
         \o SharedSlices(Tail(raw_datacube), mask_datacube)

\* raw_datacube.where(mask_datacube["agriculture-cloud-mask"] == 1): the two
\* cubes are aligned on the time stamps they share, and on those a pixel
\* keeps its value where the mask is 1 and is NaN elsewhere.
WhereMaskIsOne(raw_datacube, mask_datacube) ==
    LET MaskAt(t) == CHOOSE i \in 1..Len(mask_datacube) : mask_datacube[i].time = t
        shared == SharedSlices(raw_datacube, mask_datacube)
    IN [i \in 1..Len(shared) |->
           [time |-> shared[i].time,
            red |-> [p \in CubePixels |->
                        IF mask_datacube[MaskAt(shared[i].time)].mask[p] = Fin(1)
                        THEN shared[i].red[p]
                        ELSE NaN]]]

\* Mutant of apply_cloud_mask_to_raw_images_datacube: raw_image_size is
\* counted on the masked cube.
apply_cloud_mask_SizeAfterMask(raw_datacube, mask_datacube) ==
    LET masked == WhereMaskIsOne(raw_datacube, mask_datacube)
    IN [slices |-> masked,
        raw_image_size |-> IF masked = <<>> THEN 0 ELSE NotNullPixels(masked[1].red)]

\* apply_cloud_mask_to_raw_images_datacube (lines 437-439)
apply_cloud_mask_to_raw_images_datacube(raw_datacube, mask_datacube) ==
    [slices |-> WhereMaskIsOne(raw_datacube, mask_datacube),
     raw_image_size |-> calculate_geometry_image_size(raw_datacube)]

InitCube ==
    /\ cube \in {[pc |-> "ready", raw_datacube |-> r, mask_datacube |-> m] :
                    r \in RawCubes, m \in MaskCubes}
    /\ DatesIdle /\ DiffIdle /\ AreaIdle /\ ViIdle /\ StacIdle /\ RunIdle /\ RepeatIdle
    /\ WindowIdle /\ ZarrIdle

\* get_free_cloud_images_using_stac_catalog, line 467: the mask is applied.
ApplyCloudMask ==
    /\ cube.pc = "ready"
    /\ cube' = [pc |-> "done",
                raw_datacube |-> cube.raw_datacube,
                mask_datacube |-> cube.mask_datacube,
                image_free_cloud_datacube |->
                    apply_cloud_mask_to_raw_images_datacube(
                        cube.raw_datacube, cube.mask_datacube)]
    /\ UNCHANGED <<dateVars, diffVars, area, vi, stac, run, repeat, window, zarr>>

NextCube == ApplyCloudMask

SpecCube == InitCube /\ [][NextCube]_vars

\* ------------------------- apply_cloud_mask_to_raw_images_datacube: claims

\* The pairs of a raw slice and the mask slice of the same time stamp.
MaskedPairs ==
    {ij \in (1..Len(cube.raw_datacube)) \X (1..Len(cube.mask_datacube)) :
        cube.raw_datacube[ij[1]].time = cube.mask_datacube[ij[2]].time}

\* The slice of the masked cube with time stamp t, if any.
MaskedSlicesAt(t) ==
    {k \in 1..Len(cube.image_free_cloud_datacube.slices) :
        cube.image_free_cloud_datacube.slices[k].time = t}

MaxSecond == 2

Seconds == 1..MaxSecond

\* The values of entity_id that are set.
EntityIds == {"A", "B"}

\* A path of the temporary directory: the time stamp of its name, to the
\* second, and the entity prefix a rename put before it ("none" before).
ZarrPathOf(stamp, prefix) == [stamp |-> stamp, prefix |-> prefix]

\* The value of a path that is not set (the local zarr_path before line
\* 169, the attribute self.zarr_path = None of the constructor).
NoPath == [stamp |-> 0, prefix |-> "none"]

\* A run of trigger that is about to call dataset_to_zarr_format. overwrote,
\* uploaded and deleted name the run whose datacube this run replaced,
\* uploaded and deleted (0 for none).
NewZarrRuns ==
    {[pc |-> "now", entity_id |-> e, clean_local_file |-> c,
      zarr_path |-> NoPath, self_zarr_path |-> NoPath, created |-> FALSE,
      overwrote |-> 0, uploaded |-> 0, deleted |-> 0,
      failed |-> "none"] :
        e \in {"none"} \cup EntityIds, c \in BOOLEAN}

\* The place of a second trigger that does not run.
NoRun == [pc |-> "absent"]

RunIds == {1, 2}

\* os.path.exists(path)
Exists(dirs, path) == \E d \in dirs : d.path = path

\* The run whose datacube the directory at path holds.
ContentAt(dirs, path) == (CHOOSE d \in dirs : d.path = path).content

\* The temporary directory without the entry of path.
Without(dirs, path) == {d \in dirs : d.path # path}

\* utils.py 37-40: the path is the temporary directory and
\* datetime.now().strftime("%Y-%m-%d_%H-%M-%S") + "_impacted-area-datacube.zarr".
dataset_to_zarr_path(clock) == ZarrPathOf(clock, "none")

InitZarr ==
    /\ zarr \in {[pc |-> "active", clock |-> 1, dirs |-> {},
                  runs |-> [i \in RunIds |-> IF i = 1 THEN first ELSE second]] :
                    first \in NewZarrRuns, second \in NewZarrRuns \cup {NoRun}}
    /\ DatesIdle /\ DiffIdle /\ AreaIdle /\ ViIdle /\ StacIdle /\ RunIdle /\ RepeatIdle
    /\ WindowIdle /\ CubeIdle

\* The state after run i became r and the temporary directory dirs.
ZarrStep(i, r, dirs) ==
    /\ zarr' = [zarr EXCEPT !.runs[i] = r, !.dirs = dirs]
    /\ UNCHANGED <<dateVars, diffVars, area, vi, stac, run, repeat, window, cube>>

\* Run r raises at its current stage.
ZarrFailed(r) == [r EXCEPT !.pc = "raised", !.failed = r.pc]

\* The clock passes to the next second.
Tick ==
    /\ zarr.pc = "active"
    /\ zarr.clock < MaxSecond
    /\ zarr' = [zarr EXCEPT !.clock = @ + 1]
    /\ UNCHANGED <<dateVars, diffVars, area, vi, stac, run, repeat, window, cube>>

\* dataset_to_zarr_format, utils.py 37-40: the path is named after the
\* current second.
ZarrName(i) ==
    /\ zarr.pc = "active"
    /\ zarr.runs[i].pc = "now"
    /\ ZarrStep(i, [zarr.runs[i] EXCEPT !.pc = "to_zarr",
                                        !.zarr_path = dataset_to_zarr_path(zarr.clock)],
                zarr.dirs)

\* dataset.to_zarr(zarr_path), utils.py 44, opening the store: in its default
\* mode to_zarr raises when the path already holds a store.
ZarrOpen(i) ==
    /\ zarr.pc = "active"
    /\ zarr.runs[i].pc = "to_zarr"
    /\ ZarrStep(i, IF Exists(zarr.dirs, zarr.runs[i].zarr_path)
                   THEN ZarrFailed(zarr.runs[i])
                   ELSE [zarr.runs[i] EXCEPT !.pc = "store"],
                zarr.dirs)

\* dataset.to_zarr(zarr_path), utils.py 44, writing the datacube: what the
\* path held is replaced.
ZarrStore(i) ==
    /\ zarr.pc = "active"
    /\ zarr.runs[i].pc = "store"
    /\ LET r == zarr.runs[i] IN
       ZarrStep(i, [r EXCEPT !.pc = IF r.entity_id = "none" THEN "upload" ELSE "rename",
                             !.created = TRUE,
                             !.overwrote = IF Exists(zarr.dirs, r.zarr_path)
                                           THEN ContentAt(zarr.dirs, r.zarr_path)
                                           ELSE 0],
                Without(zarr.dirs, r.zarr_path)
                    \cup {[path |-> r.zarr_path, content |-> i]})

\* processor.py 171-176: os.rename to the name with the entity prefix; it
\* raises when the source is gone or the target is a directory with files.
ZarrRename(i) ==
    /\ zarr.pc = "active"
    /\ zarr.runs[i].pc = "rename"
    /\ LET r == zarr.runs[i]
           new_path == ZarrPathOf(r.zarr_path.stamp, r.entity_id)
       IN IF ~Exists(zarr.dirs, r.zarr_path) \/ Exists(zarr.dirs, new_path)
          THEN ZarrStep(i, ZarrFailed(r), zarr.dirs)
          ELSE ZarrStep(i, [r EXCEPT !.pc = "upload", !.zarr_path = new_path],
                        Without(zarr.dirs, r.zarr_path)
                            \cup {[path |-> new_path,
                                   content |-> ContentAt(zarr.dirs, r.zarr_path)]})

\* processor.py 184-186: upload_to_cloud_storage; the write raises when the
\* folder is gone, and RuntimeError leaves trigger.
ZarrUpload(i) ==
    /\ zarr.pc = "active"
    /\ zarr.runs[i].pc = "upload"
    /\ \E write \in WriteOutcomes :
          LET r == zarr.runs[i]
              outcome == upload_to_cloud_storage(
                             "AWS",
                             IF Exists(zarr.dirs, r.zarr_path) THEN write ELSE "raise")
          IN ZarrStep(i, IF outcome.pc = "raised"
                         THEN ZarrFailed(r)
                         ELSE [r EXCEPT !.pc = "clean",
                                        !.uploaded = IF write = "true"
                                                     THEN ContentAt(zarr.dirs, r.zarr_path)
                                                     ELSE 0],
                      zarr.dirs)

\* processor.py 188-191: self.zarr_path is set and, when clean_local_file is
\* set, delete_local_directory removes the directory if it exists.
ZarrClean(i) ==
    /\ zarr.pc = "active"
    /\ zarr.runs[i].pc = "clean"
    /\ LET r == zarr.runs[i]
           delete == r.clean_local_file /\ Exists(zarr.dirs, r.zarr_path)
       IN ZarrStep(i, [r EXCEPT !.pc = "output",
                                !.self_zarr_path = r.zarr_path,
                                !.deleted = IF delete
                                            THEN ContentAt(zarr.dirs, r.zarr_path)
                                            ELSE 0],
                   IF delete THEN Without(zarr.dirs, r.zarr_path) ELSE zarr.dirs)

\* processor.py 193-221: the output model is built (it raises on a missing
\* storage link) and trigger returns.
ZarrFinish(i) ==
    /\ zarr.pc = "active"
    /\ zarr.runs[i].pc = "output"
    /\ \E r \in {ZarrFailed(zarr.runs[i]), [zarr.runs[i] EXCEPT !.pc = "returned"]} :
          ZarrStep(i, r, zarr.dirs)

NextZarr ==
    \/ Tick
    \/ \E i \in RunIds : ZarrName(i)
    \/ \E i \in RunIds : ZarrOpen(i)
    \/ \E i \in RunIds : ZarrStore(i)
    \/ \E i \in RunIds : ZarrRename(i)
    \/ \E i \in RunIds : ZarrUpload(i)
    \/ \E i \in RunIds : ZarrClean(i)
    \/ \E i \in RunIds : ZarrFinish(i)

SpecZarr == InitZarr /\ [][NextZarr]_vars

\* ------------------------------------- the temporary zarr directory: claims

\* Both triggers run.
TwoRuns == zarr.pc = "active" /\ zarr.runs[2].pc # "absent"

\* Only one trigger runs.
OneRun == zarr.pc = "active" /\ zarr.runs[2].pc = "absent"

\* C29 (as claimed): two trigger runs, concurrent or started within the same
\* second, with the same entity_id or none, never use the same local zarr
\* path, and neither overwrites, uploads or deletes the datacube the other
\* one wrote.
C29_RunsNeverShareZarrPath ==
    TwoRuns =>
        /\ (zarr.runs[1].zarr_path # NoPath /\ zarr.runs[2].zarr_path # NoPath)
               => zarr.runs[1].zarr_path # zarr.runs[2].zarr_path
        /\ \A i \in RunIds :
              /\ zarr.runs[i].overwrote \in {0, i}
              /\ zarr.runs[i].uploaded \in {0, i}
              /\ zarr.runs[i].deleted \in {0, i}

\* C30 (as claimed): when a trigger that wrote its zarr directory has ended,
\* by returning or by raising, the directory no longer exists if
\* clean_local_file is set; if it is not set the directory is still there
\* and self.zarr_path names it.
C30_DirectoryGoneWhenTriggerEnds ==
    (/\ OneRun
     /\ zarr.runs[1].pc \in {"returned", "raised"}
     /\ zarr.runs[1].created)
    => IF zarr.runs[1].clean_local_file
       THEN zarr.dirs = {}
       ELSE /\ Exists(zarr.dirs, zarr.runs[1].zarr_path)
            /\ zarr.runs[1].self_zarr_path = zarr.runs[1].zarr_path

\* ------------------------------------------------- all operations together

Init ==
    \/ InitDates
    \/ InitDiff
    \/ InitArea
    \/ InitVI
    \/ InitTrigger
    \/ InitStac
    \/ InitRepeat
    \/ InitAscending
    \/ InitWindow
    \/ InitCube
    \/ InitZarr

Next ==
    \/ NextDates
    \/ NextDiff
    \/ NextArea
    \/ NextVI
    \/ NextTrigger
    \/ NextStac
    \/ NextRepeat
    \/ NextWindow
    \/ NextCube
    \/ NextZarr

Spec == Init /\ [][Next]_vars

====
